---- MODULE Spec2Model ----
(***************************************************************************)
(* Model of track-o-matic's stepper motor driver (src/lib/Stepper.js, the  *)
(* revision at lines 1-285) running against either real GPIO pins         *)
(* (src/lib/GPIO.js) or the simulated motor (src/lib/MockStepper.js), on   *)
(* Node's single-threaded event loop, and of the split-flap display        *)
(* (src/lib/SplitFlap.js) that drives one such stepper.                    *)
(*                                                                         *)
(* One action is one run-to-completion piece of JavaScript: a call of      *)
(* step(), one microtask, one setImmediate callback or one timer callback. *)
(* Pending continuations are kept in mq (microtasks, FIFO), immq           *)
(* (setImmediate callbacks, FIFO) and in the "timer" state of a command.   *)
(* Durations are integers in nanoseconds, Date.now() is the integer now.   *)
(***************************************************************************)
EXTENDS Integers, Sequences, FiniteSets, TLC

\* ---------------------------------------------------------------- bounds
MaxCmds == 2
MaxSteps == 2
MinTotalSteps == 3
MaxTotalSteps == 4
MaxTime == 11
MaxFails == 1
MaxCalls == 2
MinTotalFlaps == 2
MaxTotalFlaps == 3
MaxMotors == 2
MaxTasks == 3
MaxCycles == 2

\* ------------------------------------------------------ program constants
NS_PER_MS == 1000000
MS_PER_STEP_EVT == 10
NUM_PINS == 4
NS_IMMEDIATE_MIN == 10000

STEP_PINS ==
    << <<1, 0, 1, 0>>,
       <<0, 1, 1, 0>>,
       <<0, 1, 0, 1>>,
       <<1, 0, 0, 1>> >>

\* ------------------------------------------------------------ input sets
StepsSet == (0 - MaxSteps)..MaxSteps

\* duration * NS_PER_S of a step(steps, duration) call, in nanoseconds:
\* 2 us (setTimeoutNS waits for nothing), 0.2 ms (setImmediate waits only),
\* 3 ms (a timer; with two steps a timer followed by setImmediate waits).
DurationSet == {2000, 200000, 3000000}

\* How far Date.now() moves at once: exactly the throttle interval, or just
\* beyond it.
TickSet == {MS_PER_STEP_EVT, MS_PER_STEP_EVT + 1}

VARIABLES
    totalSteps,     \* Stepper.totalSteps (= MockStepper.totalSteps)
    useMock,        \* TRUE: gpios is a MockStepper; FALSE: four real GPIOs
    currentStep,    \* Stepper._currentStep
    latestCommand,  \* Stepper.latestCommand: 0 = the initial resolved
                    \* promise, c > 0 = the promise of command c
    cmds,           \* the step() calls made so far, in submission order
    mq,             \* microtask queue: commands whose continuation is queued
    immq,           \* setImmediate queue: 0 = the mock's tick, c = command c
    state,          \* the four pin levels (MockStepper's state array)
    mockStep,       \* MockStepper._currentStep
    now,            \* Date.now(), in milliseconds
    lastEvt,        \* payload of the last 'step' event emitted (-1: none)
    lastEvtTime,    \* Date.now() of the last 'step' event emitted (-1: none)
    overlapped,     \* some command began while another was executing
    fails,          \* number of pin writes that have thrown
    totalFlaps,     \* SplitFlap.totalFlaps
    flaps,          \* SplitFlap.flaps: the labels, in display order
    period,         \* SplitFlap.period, in nanoseconds
    flapIndex,      \* SplitFlap._flapIndex
    calls,          \* the setFlap() calls made so far, in call order
    arg,            \* the arguments of the function or constructor under study
    res,            \* its result so far
    motors,         \* the Steppers of a display with several motors
    tasks,          \* the step() calls made on them, statement by statement
    sched,          \* the event loop they share
    orch            \* the BusTime update cycle (setupBusTime)

stepperVars == <<totalSteps, useMock, currentStep, latestCommand, cmds, mq,
                 immq, state, mockStep, now, lastEvt, lastEvtTime,
                 overlapped, fails>>

flapVars == <<totalFlaps, flaps, period, flapIndex, calls>>

restVars == <<arg, res, motors, tasks, sched, orch>>

vars == <<stepperVars, flapVars, restVars>>

\* ------------------------------------------------------------- helpers
Abs(x) == IF x < 0 THEN 0 - x ELSE x

Sign(x) == IF x > 0 THEN 1 ELSE IF x < 0 THEN 0 - 1 ELSE 0

Ids == 1..Len(cmds)

Settled(c) == cmds[c].st \in {"resolved", "rejected"}

\* past `await this.latestCommand` and not yet settled
Active(c) == cmds[c].st \in {"micro", "imm", "timer"}

\* The states of a command (field st):
\*   "awaiting"  at `await this.latestCommand`, that promise pending
\*   "queued"    at `await this.latestCommand`, continuation in mq
\*   "micro"     at `await setTimeoutNS(dt)`, continuation in mq
\*   "imm"       at `await setImmediatePromise()` inside setTimeoutNS
\*   "timer"     at `await setTimeoutPromise(...)` inside setTimeoutNS
\*   "resolved", "rejected"   the command's promise has settled

\* Removes every occurrence of x from the sequence q.
RECURSIVE Without(_, _)
Without(q, x) ==
    IF q = <<>> THEN <<>>
    ELSE IF Head(q) = x THEN Without(Tail(q), x)
    ELSE <<Head(q)>> \o Without(Tail(q), x)

\* The commands of the set S as a sequence in increasing id order.
RECURSIVE InOrder(_)
InOrder(S) ==
    IF S = {} THEN <<>>
    ELSE LET m == CHOOSE x \in S : \A y \in S : x <= y
         IN <<m>> \o InOrder(S \ {m})

\* ------------------------------------------------------- pure functions
stepMod(x, direction, mod) ==
    IF direction > 0
    THEN (IF x + 1 > mod THEN 0 ELSE x + 1)
    ELSE IF direction < 0
    THEN (IF x = 0 THEN mod ELSE x) - 1
    ELSE x

\* const dt = duration * NS_PER_S / total (only used when total > 0)
Dt(steps, duration) == duration \div Abs(steps)

\* setTimeoutNS(ns): does it start with a timer wait?
WaitsTimer(ns) == ns > NS_PER_MS

\* setTimeoutNS(ns): does it enter the setImmediate loop at least once
\* (after the timer wait, if any, has reduced ns to ns % NS_PER_MS)?
WaitsImmediate(ns) ==
    (IF ns > NS_PER_MS THEN ns % NS_PER_MS ELSE ns) > NS_IMMEDIATE_MIN

\* Variant of MockTick that does not wrap the forward neighbour.
MockTickNoWrap(p, s, total) ==
    IF s[1] = s[2] \/ s[3] = s[4] THEN p
    ELSE LET forward == p + 1
             backward == IF p - 1 < 0 THEN total - 1 ELSE p - 1
         IN IF s = STEP_PINS[(forward % 4) + 1] THEN forward
            ELSE IF s = STEP_PINS[(backward % 4) + 1] THEN backward
            ELSE p

\* Variant of MockTick that tries the backward neighbour first.
MockTickBackwardFirst(p, s, total) ==
    IF s[1] = s[2] \/ s[3] = s[4] THEN p
    ELSE LET forward == IF p + 1 >= total THEN 0 ELSE p + 1
             backward == IF p - 1 < 0 THEN total - 1 ELSE p - 1
         IN IF s = STEP_PINS[(backward % 4) + 1] THEN backward
            ELSE IF s = STEP_PINS[(forward % 4) + 1] THEN forward
            ELSE p

\* MockStepper's tick on position p and pin levels s: the new position.
MockTick(p, s, total) ==
    IF s[1] = s[2] \/ s[3] = s[4] THEN p
    ELSE LET forward == IF p + 1 >= total THEN 0 ELSE p + 1
             backward == IF p - 1 < 0 THEN total - 1 ELSE p - 1
         IN IF s = STEP_PINS[(forward % 4) + 1] THEN forward
            ELSE IF s = STEP_PINS[(backward % 4) + 1] THEN backward
            ELSE p

\* Variant of stepMotor that goes on to the remaining pins after a write
\* has thrown.
stepMotorNoAbort(s, pos, failAt) ==
    LET pins == STEP_PINS[(pos % NUM_PINS) + 1]
    IN [i \in 1..NUM_PINS |-> IF i - 1 = failAt THEN s[i] ELSE pins[i]]

\* Variant of stepMotor that writes the row of the position before the
\* transition.
stepMotorStale(s, pos, failAt) ==
    LET pins == STEP_PINS[((pos + NUM_PINS - 1) % NUM_PINS) + 1]
    IN [i \in 1..NUM_PINS |-> IF i - 1 < failAt THEN pins[i] ELSE s[i]]

\* stepMotor(): the pin levels after writing the row of position pos to the
\* pins 0, 1, 2, 3 in this order, the write to pin failAt throwing
\* (failAt = NUM_PINS: no write throws).
stepMotor(s, pos, failAt) ==
    LET pins == STEP_PINS[(pos % NUM_PINS) + 1]
    IN [i \in 1..NUM_PINS |-> IF i - 1 < failAt THEN pins[i] ELSE s[i]]

\* ------------------------------------------------------------------ Init
\* The parts of the system a specification does not use.
NoFunction == arg = [fn |-> "none"] /\ res = [fn |-> "none"]

NoMotors == motors = <<>> /\ tasks = <<>> /\ sched = "none"

NoCycle == orch = "none"

Init ==
    /\ totalSteps \in MinTotalSteps..MaxTotalSteps
    /\ useMock \in BOOLEAN
    /\ currentStep = 0
    /\ latestCommand = 0
    /\ cmds = <<>>
    /\ mq = <<>>
    /\ immq = <<>>
    /\ state = <<0, 0, 0, 0>>
    /\ mockStep = 0
    /\ now = 0
    /\ lastEvt = 0 - 1
    /\ lastEvtTime = 0 - 1
    /\ overlapped = FALSE
    /\ fails = 0
    \* no SplitFlap is attached to the stepper
    /\ totalFlaps = 0
    /\ flaps = <<>>
    /\ period = 0
    /\ flapIndex = 0
    /\ calls = <<>>
    /\ NoFunction
    /\ NoMotors
    /\ NoCycle

\* ------------------------------------------------- pieces of step()
\* Variant of ThrottleElapsed that already fires at exactly the interval.
ThrottleElapsedAtLeast(nowMs, tStep) == nowMs - tStep >= MS_PER_STEP_EVT

\* if (Date.now() - tStep > MS_PER_STEP_EVT)
ThrottleElapsed(nowMs, tStep) == nowMs - tStep > MS_PER_STEP_EVT

\* Variant of FinalEvents that emits nothing after the loop.
FinalEventsNone(pos) == <<>>

\* The events emitted after the loop: this.emit('step', this._currentStep)
FinalEvents(pos) == <<pos>>

\* The promise awaited by a new command is already settled.
AwaitedSettled(l) == l = 0 \/ Settled(l)

\* The awaited promise of command c rejected: `await` throws.
AwaitThrows(c) ==
    cmds[c].waitOn # 0 /\ cmds[cmds[c].waitOn].st = "rejected"

\* Command c's promise settles with outcome: the continuations of those
\* awaiting it are queued as microtasks in registration order: first the
\* setFlap call that made the command (it awaits the promise as soon as
\* step() returns; queued as the negative of its number), then the commands
\* that found it as latestCommand.
SettleCmds(C, c, outcome) == [C EXCEPT ![c].st = outcome]

SettleQueue(C, c, q) ==
    q \o (IF C[c].flap # 0 THEN <<0 - C[c].flap>> ELSE <<>>)
      \o InOrder({d \in 1..Len(C) : C[d].st = "awaiting" /\ C[d].waitOn = c})

Requeued(C, c) ==
    [d \in 1..Len(C) |->
        IF C[d].st = "awaiting" /\ C[d].waitOn = c
        THEN [C[d] EXCEPT !.st = "queued"] ELSE C[d]]

\* Variant of LoopTest that leaves the loop one transition early.
LoopTestShort(numSteps, steps, den) == (numSteps + 1) * den < Abs(steps)

\* The loop test `numSteps < total` with total = Math.abs(steps), for the
\* number steps / den (den = 1 when steps is an integer).
LoopTest(numSteps, steps, den) == numSteps * den < Abs(steps)

\* Is the transition old -> new a forward (backward) step modulo total?
IsForward(old, new, total) == new = (old + 1) % total
IsBackward(old, new, total) == new = (old - 1 + total) % total

\* The loop of queueCommand from its test `numSteps < total` on, for command
\* c with the commands C, microtask queue q and setImmediate queue iq:
\* either one transition followed by `await setTimeoutNS(dt)`, or the final
\* event and the settlement of the promise.  inTimer: runs in a timer
\* callback.
LoopStep(c, C, q, iq, inTimer) ==
    LET cmd == C[c]
    IN
    IF LoopTest(cmd.numSteps, cmd.steps, cmd.den)
    THEN
      \E failAt \in (IF ~useMock /\ fails < MaxFails
                     THEN 0..NUM_PINS ELSE {NUM_PINS}) :
        LET newPos == stepMod(currentStep, Sign(cmd.steps), totalSteps)
            \* writeFn: clearImmediate(tickTimer); setImmediate(tick)
            iq1 == IF useMock THEN Append(Without(iq, 0), 0) ELSE iq
            moved == [cmd EXCEPT
                        !.numSteps = @ + 1,
                        !.fwd = @ + (IF IsForward(currentStep, newPos,
                                                  totalSteps) THEN 1 ELSE 0),
                        !.bwd = @ + (IF IsBackward(currentStep, newPos,
                                                   totalSteps) THEN 1 ELSE 0)]
        IN
        /\ currentStep' = newPos
        /\ state' = stepMotor(state, newPos, failAt)
        /\ IF failAt < NUM_PINS
           THEN \* writeSync throws: the async function rejects
             LET C1 == [C EXCEPT ![c] = [moved EXCEPT !.writes = @ + failAt,
                                                      !.failed = TRUE]]
             IN /\ cmds' = Requeued(SettleCmds(C1, c, "rejected"), c)
                /\ mq' = SettleQueue(C1, c, q)
                /\ immq' = iq1
                /\ fails' = fails + 1
                /\ UNCHANGED <<lastEvt, lastEvtTime>>
           ELSE
             LET emit == ThrottleElapsed(now, cmd.tStep)
                 dt == Dt(cmd.steps, cmd.duration)
                 nst == IF WaitsTimer(dt) THEN "timer"
                        ELSE IF WaitsImmediate(dt) THEN "imm" ELSE "micro"
                 C1 == [C EXCEPT ![c] =
                          [moved EXCEPT
                             !.writes = @ + NUM_PINS,
                             !.emits = @ + (IF emit THEN 1 ELSE 0),
                             !.tStep = IF emit THEN now ELSE @,
                             !.st = nst,
                             !.blocked = (nst = "timer" /\ inTimer
                                          /\ useMock)]]
             IN /\ cmds' = C1
                /\ mq' = IF nst = "micro" THEN Append(q, c) ELSE q
                /\ immq' = IF nst = "imm" THEN Append(iq1, c) ELSE iq1
                /\ lastEvt' = IF emit THEN newPos ELSE lastEvt
                /\ lastEvtTime' = IF emit THEN now ELSE lastEvtTime
                /\ UNCHANGED fails
    ELSE
      LET evts == FinalEvents(currentStep)
          C1 == [C EXCEPT ![c].emits = @ + Len(evts)]
      IN /\ cmds' = Requeued(SettleCmds(C1, c, "resolved"), c)
         /\ mq' = SettleQueue(C1, c, q)
         /\ immq' = iq
         /\ lastEvt' = IF evts # <<>> THEN evts[Len(evts)] ELSE lastEvt
         /\ lastEvtTime' = IF evts # <<>> THEN now ELSE lastEvtTime
         /\ UNCHANGED <<currentStep, state, fails>>

\* --------------------------------------------------------------- actions
\* A call of step(steps, duration): the async function runs up to
\* `await this.latestCommand`.
\* steps and duration are the numbers steps / den and duration / den;
\* flap is the number of the setFlap call that awaits the returned promise
\* (0: none).
StepCall(steps, duration, den, flap) ==
    LET c == Len(cmds) + 1
        ready == AwaitedSettled(latestCommand)
        cmd == [steps |-> steps, duration |-> duration, den |-> den,
                flap |-> flap,
                st |-> IF ready THEN "queued" ELSE "awaiting",
                waitOn |-> latestCommand,
                numSteps |-> 0, tStep |-> 0, startPos |-> 0,
                blocked |-> FALSE,
                fwd |-> 0, bwd |-> 0, emits |-> 0, writes |-> 0,
                failed |-> FALSE]
    IN /\ cmds' = Append(cmds, cmd)
       /\ mq' = IF ready THEN Append(mq, c) ELSE mq

Submit(steps, duration) ==
    /\ Len(cmds) < MaxCmds
    /\ StepCall(steps, duration, 1, 0)
    /\ UNCHANGED <<totalSteps, useMock, currentStep, latestCommand, immq,
                   state, mockStep, now, lastEvt, lastEvtTime, overlapped,
                   fails>>

\* The microtask at the head of mq, resuming command c after
\* `await this.latestCommand`.
Resume ==
    /\ mq # <<>>
    /\ Head(mq) > 0
    /\ LET c == Head(mq) IN
       /\ cmds[c].st = "queued"
       /\ IF AwaitThrows(c)
          THEN /\ cmds' = Requeued(SettleCmds(cmds, c, "rejected"), c)
               /\ mq' = SettleQueue(cmds, c, Tail(mq))
               /\ UNCHANGED <<currentStep, latestCommand, immq, state,
                              lastEvt, lastEvtTime, overlapped, fails>>
          ELSE /\ latestCommand' = c
               /\ overlapped' = (overlapped \/ \E d \in Ids : Active(d))
               /\ LoopStep(c,
                           [cmds EXCEPT ![c].tStep = now,
                                        ![c].startPos = currentStep],
                           Tail(mq), immq, FALSE)
    /\ UNCHANGED <<totalSteps, useMock, mockStep, now>>

\* The microtask at the head of mq, resuming command c after an
\* `await setTimeoutNS(dt)` that waited for neither timer nor setImmediate.
Continue ==
    /\ mq # <<>>
    /\ Head(mq) > 0
    /\ LET c == Head(mq) IN
       /\ cmds[c].st = "micro"
       /\ LoopStep(c, cmds, Tail(mq), immq, FALSE)
    /\ UNCHANGED <<totalSteps, useMock, latestCommand, mockStep, now,
                   overlapped>>

\* The setImmediate callback at the head of immq is the mock's tick.
MockTickRun ==
    /\ mq = <<>>
    /\ immq # <<>>
    /\ Head(immq) = 0
    /\ immq' = Tail(immq)
    /\ mockStep' = MockTick(mockStep, state, totalSteps)
    /\ cmds' = [d \in Ids |-> [cmds[d] EXCEPT !.blocked = FALSE]]
    /\ UNCHANGED <<totalSteps, useMock, currentStep, latestCommand, mq,
                   state, now, lastEvt, lastEvtTime, overlapped, fails>>

\* The setImmediate callback at the head of immq resumes command c inside
\* setTimeoutNS's loop: either ns is still above the threshold and the loop
\* waits for another setImmediate, or setTimeoutNS returns and the
\* command's loop goes on.
ImmediateRun ==
    /\ mq = <<>>
    /\ immq # <<>>
    /\ Head(immq) # 0
    /\ LET c == Head(immq) IN
       \E again \in BOOLEAN :
          IF again
          THEN /\ immq' = Append(Tail(immq), c)
               /\ UNCHANGED <<currentStep, cmds, mq, state, lastEvt,
                              lastEvtTime, fails>>
          ELSE LoopStep(c, cmds, mq, Tail(immq), FALSE)
    /\ UNCHANGED <<totalSteps, useMock, latestCommand, mockStep, now,
                   overlapped>>

\* The timer of command c inside setTimeoutNS fires: the rest of the
\* interval is waited for with setImmediate, or the command's loop goes on.
\* A timer set by a timer callback cannot fire before the check phase that
\* follows that callback has run the mock's tick (blocked).
TimerRun(c) ==
    /\ mq = <<>>
    /\ cmds[c].st = "timer"
    /\ ~cmds[c].blocked
    /\ IF WaitsImmediate(Dt(cmds[c].steps, cmds[c].duration))
       THEN /\ cmds' = [cmds EXCEPT ![c].st = "imm"]
            /\ immq' = Append(immq, c)
            /\ UNCHANGED <<currentStep, mq, state, lastEvt, lastEvtTime,
                           fails>>
       ELSE LoopStep(c, cmds, mq, immq, TRUE)
    /\ UNCHANGED <<totalSteps, useMock, latestCommand, mockStep, now,
                   overlapped>>

\* Wall-clock time passes.
Tick(d) ==
    /\ now + d <= MaxTime
    /\ now' = now + d
    /\ UNCHANGED <<totalSteps, useMock, currentStep, latestCommand, cmds,
                   mq, immq, state, mockStep, lastEvt, lastEvtTime,
                   overlapped, fails>>

Next ==
    \/ \E steps \in StepsSet, duration \in DurationSet :
          Submit(steps, duration) /\ UNCHANGED <<flapVars, restVars>>
    \/ Resume /\ UNCHANGED <<flapVars, restVars>>
    \/ Continue /\ UNCHANGED <<flapVars, restVars>>
    \/ MockTickRun /\ UNCHANGED <<flapVars, restVars>>
    \/ ImmediateRun /\ UNCHANGED <<flapVars, restVars>>
    \/ \E c \in Ids : TimerRun(c) /\ UNCHANGED <<flapVars, restVars>>
    \/ \E d \in TickSet : Tick(d) /\ UNCHANGED <<flapVars, restVars>>

Spec == Init /\ [][Next]_vars

\* The event loop runs every queued microtask, every setImmediate callback
\* and every timer; the setImmediate loop of setTimeoutNS ends because the
\* clock it reads moves on.  Calls of step() and the passing of time are
\* not forced.
ImmediateDone == ImmediateRun /\ cmds' # cmds

LiveSpec ==
    /\ Init
    /\ [][Next]_vars
    /\ WF_vars(Resume /\ UNCHANGED <<flapVars, restVars>>)
    /\ WF_vars(Continue /\ UNCHANGED <<flapVars, restVars>>)
    /\ WF_vars(MockTickRun /\ UNCHANGED <<flapVars, restVars>>)
    /\ WF_vars(ImmediateDone /\ UNCHANGED <<flapVars, restVars>>)
    /\ \A c \in 1..MaxCmds :
          WF_vars(c \in Ids /\ TimerRun(c)
                    /\ UNCHANGED <<flapVars, restVars>>)

\* ============================================================== SplitFlap
\* A SplitFlap on the stepper.  Its numbers end, steps and duration are
\* fractions in general (nothing rounds them); they are kept exactly, as
\* numerators over the denominator totalFlaps.

\* The labels a display is built with: the first totalFlaps of these.
LabelPool == <<"A", "B", "C", "D", "E">>

\* Keys every object literal inherits from Object.prototype; flapIndices is
\* an object literal.
ObjectPrototypeKeys == {"toString", "constructor"}

\* The labels setFlap is called with: the display's own labels, a string
\* that is no label, and a string that is no label but an inherited key.
FlapInputs == {flaps[i] : i \in 1..Len(flaps)} \cup {"?", "toString"}

\* period / totalSteps, the interval between two steps of a setFlap
\* motion, in nanoseconds: no wait, setImmediate waits, timer then
\* setImmediate waits.
FlapDtSet == {2000, 200000, 1500000}

\* The value of flapIndices[flap] when it is no number (an inherited
\* function), and of the arithmetic on it (NaN).
NotANumber == 0 - 1

\* flap in flapIndices
HasProperty(flap, F) ==
    (\E i \in 1..Len(F) : F[i] = flap) \/ flap \in ObjectPrototypeKeys

\* flapIndices[flap], for a flap that passed the membership test
FlapIndexOf(flap, F) ==
    IF \E i \in 1..Len(F) : F[i] = flap
    THEN (CHOOSE i \in 1..Len(F) :
              F[i] = flap /\ \A j \in 1..Len(F) : F[j] = flap => j <= i) - 1
    ELSE NotANumber

\* end = endIndex / totalFlaps * totalSteps, as a numerator over totalFlaps
FlapEnd(endIndex, total) == endIndex * total

\* Variant of ForwardSteps: the signed difference.
ForwardStepsSigned(end, start, total) == end - start

\* steps = end < start ? (totalSteps - start + end) : (end - start)
ForwardSteps(end, start, total) ==
    IF end < start THEN total - start + end ELSE end - start

\* duration = steps / totalSteps * period, in nanoseconds, as a numerator
\* over the denominator of steps (period is a multiple of totalSteps here)
FlapDuration(steps, total, per) == (steps * per) \div total

\* Does this.stepper.calibrate(end) return?  class Stepper defines no
\* method calibrate (nor does EventEmitter): the call throws a TypeError.
CalibrateReturns == FALSE

\* Variant of IndexAtCall that assigns the index before the membership
\* test and the calibration.
IndexAtCallUnchecked(old, endIndex, noStep, known) ==
    IF noStep THEN endIndex ELSE old

\* _flapIndex when setFlap returns its promise to the caller (known: the
\* flap passed the membership test)
IndexAtCall(old, endIndex, noStep, known) ==
    IF known /\ noStep /\ CalibrateReturns THEN endIndex ELSE old

\* Variant of IndexAfterStep that assigns the index whatever the outcome.
IndexAfterStepAlways(old, endIndex, outcome) == endIndex

\* _flapIndex after `await stepper.step(steps, duration)` settled
IndexAfterStep(old, endIndex, outcome) ==
    IF outcome = "resolved" THEN endIndex ELSE old

CallIds == 1..Len(calls)

\* The display's stepper is built on four real GPIO pins (setupSteppers in
\* src/lib/index.js), so its pin writes can throw.
FlapInit ==
    /\ totalSteps \in MinTotalSteps..MaxTotalSteps
    /\ useMock = FALSE
    /\ currentStep = 0
    /\ latestCommand = 0
    /\ cmds = <<>>
    /\ mq = <<>>
    /\ immq = <<>>
    /\ state = <<0, 0, 0, 0>>
    /\ mockStep = 0
    /\ now = 0
    /\ lastEvt = 0 - 1
    /\ lastEvtTime = 0 - 1
    /\ overlapped = FALSE
    /\ fails = 0
    /\ totalFlaps \in MinTotalFlaps..MaxTotalFlaps
    /\ flaps = SubSeq(LabelPool, 1, totalFlaps)
    /\ period \in {d * totalSteps : d \in FlapDtSet}
    /\ flapIndex = 0
    /\ calls = <<>>
    /\ NoFunction
    /\ NoMotors
    /\ NoCycle

\* A call of setFlap(flap, noStep): the async function runs up to its
\* throw, its return or `await stepper.step(steps, duration)`.
SetFlapCall(flap, noStep) ==
    /\ LET k == Len(calls) + 1
           call == [flap |-> flap, noStep |-> noStep, st |-> "rejected",
                    cmd |-> 0, endIndex |-> NotANumber,
                    start |-> currentStep, indexBefore |-> flapIndex,
                    overlap |-> \E j \in CallIds : calls[j].st = "stepping"]
       IN
       IF ~HasProperty(flap, flaps)
       THEN \* throw new Error(`Unknown flap "${flap}"`)
            /\ calls' = Append(calls, call)
            /\ flapIndex' = IndexAtCall(flapIndex, NotANumber, noStep, FALSE)
            /\ UNCHANGED <<currentStep, cmds, mq>>
       ELSE
         LET endIndex == FlapIndexOf(flap, flaps)
             end == FlapEnd(endIndex, totalSteps)
             start == currentStep * totalFlaps
             steps == ForwardSteps(end, start, totalSteps * totalFlaps)
             duration == FlapDuration(steps, totalSteps, period)
             known == [call EXCEPT !.endIndex = endIndex]
         IN
         /\ flapIndex' = IndexAtCall(flapIndex, endIndex, noStep, TRUE)
         /\ IF noStep
            THEN \* this.stepper.calibrate(end); this._flapIndex = endIndex
                 /\ calls' = Append(calls,
                       [known EXCEPT !.st = IF CalibrateReturns
                                            THEN "resolved" ELSE "rejected"])
                 /\ UNCHANGED <<currentStep, cmds, mq>>
            ELSE /\ calls' = Append(calls,
                                    [known EXCEPT !.st = "stepping",
                                                  !.cmd = Len(cmds) + 1])
                 /\ UNCHANGED currentStep
                 /\ IF endIndex = NotANumber
                    THEN \* step(NaN, NaN): `numSteps < NaN` is false, as
                         \* `numSteps < 0` is
                         StepCall(0, 0, 1, k)
                    ELSE StepCall(steps, duration, totalFlaps, k)
    /\ UNCHANGED <<totalSteps, useMock, latestCommand, immq, state, mockStep,
                   now, lastEvt, lastEvtTime, overlapped, fails>>
    /\ UNCHANGED <<totalFlaps, flaps, period>>

SetFlap(flap, noStep) ==
    /\ Len(calls) < MaxCalls
    /\ SetFlapCall(flap, noStep)

\* The microtask at the head of mq resumes setFlap call k after
\* `await stepper.step(steps, duration)`.
FlapResume ==
    /\ mq # <<>>
    /\ Head(mq) < 0
    /\ LET k == 0 - Head(mq)
           outcome == cmds[calls[k].cmd].st
       IN /\ flapIndex' = IndexAfterStep(flapIndex, calls[k].endIndex, outcome)
          /\ calls' = [calls EXCEPT ![k].st = outcome]
    /\ mq' = Tail(mq)
    /\ UNCHANGED <<totalSteps, useMock, currentStep, latestCommand, cmds,
                   immq, state, mockStep, now, lastEvt, lastEvtTime,
                   overlapped, fails>>
    /\ UNCHANGED <<totalFlaps, flaps, period>>

FlapNext ==
    \/ \E flap \in FlapInputs, noStep \in BOOLEAN :
          SetFlap(flap, noStep) /\ UNCHANGED restVars
    \/ FlapResume /\ UNCHANGED restVars
    \/ Resume /\ UNCHANGED <<flapVars, restVars>>
    \/ Continue /\ UNCHANGED <<flapVars, restVars>>
    \/ ImmediateRun /\ UNCHANGED <<flapVars, restVars>>
    \/ \E c \in Ids : TimerRun(c) /\ UNCHANGED <<flapVars, restVars>>
    \/ \E d \in TickSet : Tick(d) /\ UNCHANGED <<flapVars, restVars>>

FlapSpec == FlapInit /\ [][FlapNext]_vars

\* ======================================= constructors and the mock's tick
\* The pins argument of `new Stepper(totalSteps, pins)`: an array of pin
\* numbers or of pin names, with the sysfs files of the pins usable or not,
\* or a MockStepper, which always has length 4.
PinsInputs ==
    {[kind |-> "array", length |-> n, pinType |-> ty, sysfs |-> ok,
      totalSteps |-> 0] :
        n \in (NUM_PINS - 1)..(NUM_PINS + 1),
        ty \in {"number", "string"}, ok \in BOOLEAN}
    \cup {[kind |-> "mock", length |-> NUM_PINS, pinType |-> "mock",
           sysfs |-> TRUE, totalSteps |-> m] :
             m \in MinTotalSteps..MaxTotalSteps}

StepperInputs ==
    {[fn |-> "Stepper", totalSteps |-> t, pins |-> p] :
        t \in MinTotalSteps..MaxTotalSteps, p \in PinsInputs}

\* The flaps and period arguments of `new SplitFlap(...)`; one label list
\* names a label twice.
PeriodInputs == {0 - 1, 0, 1, 10}

FlapListInputs ==
    {SubSeq(LabelPool, 1, n) : n \in 0..MaxTotalFlaps} \cup {<<"A", "B", "A">>}

SplitFlapInputs ==
    {[fn |-> "SplitFlap", flaps |-> F, period |-> p] :
        F \in FlapListInputs, p \in PeriodInputs}

\* The position, pin levels and totalSteps a tick of MockStepper runs on;
\* on a wheel of 6 steps the two neighbours of position 0 share a phase row.
TickTotals == {MinTotalSteps, MaxTotalSteps, MaxTotalSteps + 2}

TickInputs ==
    {[fn |-> "tick", total |-> t, p |-> p, v |-> v] :
        t \in TickTotals, p \in 0..(MaxTotalSteps + 1),
        v \in [1..NUM_PINS -> {0, 1}]}

FnInit ==
    /\ totalSteps = MinTotalSteps
    /\ useMock = FALSE
    /\ currentStep = 0
    /\ latestCommand = 0
    /\ cmds = <<>>
    /\ mq = <<>>
    /\ immq = <<>>
    /\ state = <<0, 0, 0, 0>>
    /\ mockStep = 0
    /\ now = 0
    /\ lastEvt = 0 - 1
    /\ lastEvtTime = 0 - 1
    /\ overlapped = FALSE
    /\ fails = 0
    /\ totalFlaps = 0
    /\ flaps = <<>>
    /\ period = 0
    /\ flapIndex = 0
    /\ calls = <<>>
    /\ arg \in StepperInputs \cup SplitFlapInputs
                \cup {a \in TickInputs : a.p < a.total}
    /\ res = [fn |-> "none"]
    /\ NoMotors
    /\ NoCycle

\* new GPIO(pin, direction): does the constructor throw?  path.join throws
\* a TypeError for a pin that is no string, and the sysfs calls throw when
\* the pin's files cannot be written or opened.
GPIOThrows(pinType, sysfs) == pinType # "string" \/ ~sysfs

\* new Stepper(totalSteps, pins): an error, or the new driver.
StepperConstructor(total, pins) ==
    IF pins.length # NUM_PINS
    THEN [fn |-> "Stepper", threw |-> TRUE]
    ELSE IF pins.kind = "array"
    THEN (IF GPIOThrows(pins.pinType, pins.sysfs)
          THEN [fn |-> "Stepper", threw |-> TRUE]
          ELSE [fn |-> "Stepper", threw |-> FALSE, totalSteps |-> total,
                currentStep |-> 0])
    ELSE IF total # pins.totalSteps
    THEN [fn |-> "Stepper", threw |-> TRUE]
    ELSE [fn |-> "Stepper", threw |-> FALSE, totalSteps |-> total,
          currentStep |-> 0]

\* Variant of SplitFlapConstructor that accepts a period of 0.
SplitFlapConstructorZero(F, p) ==
    IF p < 0
    THEN [fn |-> "SplitFlap", threw |-> TRUE]
    ELSE [fn |-> "SplitFlap", threw |-> FALSE, flapIndex |-> 0,
          assigned |-> FALSE,
          flapIndices |-> [l \in {F[i] : i \in 1..Len(F)} |->
                              FlapIndexOf(l, F)]]

\* new SplitFlap(stepper, flaps, totalFlaps, period): an error, or the new
\* mapper with its table flapIndices (a later entry for a label replaces an
\* earlier one).
SplitFlapConstructor(F, p) ==
    IF p <= 0
    THEN [fn |-> "SplitFlap", threw |-> TRUE]
    ELSE [fn |-> "SplitFlap", threw |-> FALSE, flapIndex |-> 0,
          assigned |-> FALSE,
          flapIndices |-> [l \in {F[i] : i \in 1..Len(F)} |->
                              FlapIndexOf(l, F)]]

\* `flapIndices[l] = i` on the table after Object.freeze: the assignment
\* throws in strict mode and the table stays as it was.
FrozenAssign(table, l, i) == table

NewStepper ==
    /\ arg.fn = "Stepper"
    /\ res.fn = "none"
    /\ res' = StepperConstructor(arg.totalSteps, arg.pins)
    /\ UNCHANGED <<stepperVars, flapVars, arg, motors, tasks, sched, orch>>

NewSplitFlap ==
    /\ arg.fn = "SplitFlap"
    /\ res.fn = "none"
    /\ res' = SplitFlapConstructor(arg.flaps, arg.period)
    /\ UNCHANGED <<stepperVars, flapVars, arg, motors, tasks, sched, orch>>

\* A caller assigns to an entry of the mapper's table (assigned records
\* that it did).
AssignFlapIndex(l, i) ==
    /\ res.fn = "SplitFlap"
    /\ ~res.threw
    /\ res' = [res EXCEPT !.flapIndices = FrozenAssign(@, l, i),
                          !.assigned = TRUE]
    /\ UNCHANGED <<stepperVars, flapVars, arg, motors, tasks, sched, orch>>

\* The mock's tick runs on the position and pin levels of arg.
TickCall ==
    /\ arg.fn = "tick"
    /\ res.fn = "none"
    /\ res' = [fn |-> "tick", p |-> MockTick(arg.p, arg.v, arg.total)]
    /\ UNCHANGED <<stepperVars, flapVars, arg, motors, tasks, sched, orch>>

FnNext ==
    \/ NewStepper
    \/ NewSplitFlap
    \/ \E i \in 1..Len(LabelPool), n \in 0..MaxTotalFlaps :
          AssignFlapIndex(LabelPool[i], n)
    \/ TickCall

FnSpec == FnInit /\ [][FnNext]_vars

\* ======================================== several motors, statement by
\* ======================================== statement
\* Every Stepper has its own gpios, _currentStep and latestCommand; here
\* each is driven through a MockStepper of its own (mockStep, and tick: a
\* setImmediate(tick) is pending).  A task is one call of step(): its
\* motor, its steps, whether its interval is below setTimeoutNS's
\* threshold (short), the promise it awaited first (waitOn) and the
\* statement it is at (pc):
\*   "await"    at `await this.latestCommand`
\*   "test"     before the loop test `numSteps < total`
\*   "advance"  before `numSteps++; this._currentStep = stepMod(...)`
\*   "w0".."w3" inside stepMotor, before the write of that pin
\*   "emit"     after stepMotor, before the throttled emit and the wait
\*   "micro"    setTimeoutNS returned without waiting; continuation queued
\*   "timer"    waiting in setTimeoutNS for a timer or setImmediate
\*   "done"     resolved
\* sched.run is the task whose synchronous code is running (0: none) and
\* sched.mq the microtask queue.
MotorIds == 1..MaxMotors

\* The steps of the step() calls: one step backward, or MaxSteps forward.
TaskStepsSet == {0 - 1, MaxSteps}

TaskIds == 1..Len(tasks)

WritePcs == <<"w0", "w1", "w2", "w3">>

MidTransition(pc) == pc \in {"w0", "w1", "w2", "w3"}

MotorsInit ==
    /\ totalSteps \in MinTotalSteps..MaxTotalSteps
    /\ useMock = TRUE
    /\ currentStep = 0
    /\ latestCommand = 0
    /\ cmds = <<>>
    /\ mq = <<>>
    /\ immq = <<>>
    /\ state = <<0, 0, 0, 0>>
    /\ mockStep = 0
    /\ now = 0
    /\ lastEvt = 0 - 1
    /\ lastEvtTime = 0 - 1
    /\ overlapped = FALSE
    /\ fails = 0
    /\ totalFlaps = 0
    /\ flaps = <<>>
    /\ period = 0
    /\ flapIndex = 0
    /\ calls = <<>>
    /\ NoFunction
    /\ motors = [m \in MotorIds |->
                    [currentStep |-> 0, state |-> <<0, 0, 0, 0>>,
                     latestCommand |-> 0, mockStep |-> 0, tick |-> FALSE]]
    /\ tasks = <<>>
    /\ sched = [run |-> 0, mq |-> <<>>]
    /\ NoCycle

\* Variant of GpiosOf in which every Stepper writes the first one's pins.
GpiosShared(t) == 1

\* this.gpios / this._currentStep of the Stepper that task t was called
\* on: the motor whose pins and position the task works on.
GpiosOf(t) == tasks[t].motor

\* Variant of Suspends with an await between the position update and
\* stepMotor.
SuspendsBeforeWrites(pc) == pc \in {"w0", "micro", "timer", "done"}

\* Does the task give up the thread on reaching pc?  Only the awaits do:
\* `await setTimeoutNS(dt)`, and the end of the async function.
Suspends(pc) == pc \in {"micro", "timer", "done"}

\* The thread after the running task t has reached pc.
RunAfter(t, pc) == IF Suspends(pc) THEN 0 ELSE t

\* Tasks at `await this.latestCommand` on the promise of task t.
AwaitersOf(t) ==
    {u \in TaskIds : tasks[u].pc = "await" /\ tasks[u].waitOn = t}

\* A call of step(steps, duration) on motor m, with the tasks T and the
\* microtask queue Q: the async function runs up to
\* `await this.latestCommand`.  steps is a numerator over den; flap is the
\* number of the setFlap call that awaits the returned promise (0: none).
StepOn(T, Q, m, steps, den, short, flap) ==
    LET t == Len(T) + 1
        w == motors[m].latestCommand
        free == w = 0 \/ T[w].pc = "done"
    IN [tasks |-> Append(T,
                     [motor |-> m, steps |-> steps, den |-> den,
                      short |-> short, flap |-> flap, numSteps |-> 0,
                      pc |-> "await", waitOn |-> IF free THEN 0 ELSE w]),
        mq |-> IF free THEN Append(Q, t) ELSE Q]

\* A caller calls step(steps, duration) on motor m.
MStep(m, steps, short) ==
    /\ sched.run = 0
    /\ Len(tasks) < MaxTasks
    /\ LET new == StepOn(tasks, sched.mq, m, steps, 1, short, 0)
       IN /\ tasks' = new.tasks
          /\ sched' = [sched EXCEPT !.mq = new.mq]
    /\ UNCHANGED <<stepperVars, flapVars, arg, res, motors, orch>>

\* The microtask at the head of the queue runs: the task goes on after
\* `await this.latestCommand` (and becomes its motor's latestCommand) or
\* after `await setTimeoutNS(dt)`.
MResume ==
    /\ sched.run = 0
    /\ sched.mq # <<>>
    /\ Head(sched.mq) > 0
    /\ LET t == Head(sched.mq)
       IN /\ motors' = IF tasks[t].pc = "await"
                        THEN [motors EXCEPT
                                ![tasks[t].motor].latestCommand = t]
                        ELSE motors
          /\ tasks' = [tasks EXCEPT ![t].pc = "test"]
          /\ sched' = [run |-> RunAfter(t, "test"), mq |-> Tail(sched.mq)]
    /\ UNCHANGED <<stepperVars, flapVars, arg, res, orch>>

\* The loop test of the running task: another round, or the final emit and
\* the resolution, which queues the setFlap call and then the tasks
\* awaiting this one.
MTest ==
    /\ sched.run # 0
    /\ tasks[sched.run].pc = "test"
    /\ LET t == sched.run
           pc == IF LoopTest(tasks[t].numSteps, tasks[t].steps, tasks[t].den)
                 THEN "advance" ELSE "done"
           caller == IF tasks[t].flap = 0 THEN <<>>
                     ELSE <<0 - tasks[t].flap>>
       IN /\ tasks' = [tasks EXCEPT ![t].pc = pc]
          /\ sched' = [run |-> RunAfter(t, pc),
                       mq |-> IF pc = "done"
                              THEN sched.mq \o caller
                                     \o InOrder(AwaitersOf(t))
                              ELSE sched.mq]
    /\ UNCHANGED <<stepperVars, flapVars, arg, res, motors, orch>>

\* numSteps++; this._currentStep = stepMod(...)
MAdvance ==
    /\ sched.run # 0
    /\ tasks[sched.run].pc = "advance"
    /\ LET t == sched.run
           m == GpiosOf(t)
       IN /\ tasks' = [tasks EXCEPT ![t].numSteps = @ + 1, ![t].pc = "w0"]
          /\ motors' = [motors EXCEPT ![m].currentStep =
                           stepMod(@, Sign(tasks[t].steps), totalSteps)]
          /\ sched' = [sched EXCEPT !.run = RunAfter(t, "w0")]
    /\ UNCHANGED <<stepperVars, flapVars, arg, res, orch>>

\* One round of stepMotor's loop: gpios[i].writeSync(pins[i]); the mock's
\* writeFn sets the level and re-arms setImmediate(tick).  The task that
\* writes is the running one (a task that gave up the thread at a write
\* would go on when the thread is free).
MWrite ==
    /\ \E t \in TaskIds :
          /\ MidTransition(tasks[t].pc)
          /\ sched.run = t \/ (sched.run = 0 /\ Suspends(tasks[t].pc))
          /\ LET m == GpiosOf(t)
                 i == CHOOSE k \in 1..NUM_PINS : WritePcs[k] = tasks[t].pc
                 pins == STEP_PINS[(motors[m].currentStep % NUM_PINS) + 1]
                 pc == IF i < NUM_PINS THEN WritePcs[i + 1] ELSE "emit"
             IN /\ motors' = [motors EXCEPT ![m].state[i] = pins[i],
                                            ![m].tick = TRUE]
                /\ tasks' = [tasks EXCEPT ![t].pc = pc]
                /\ sched' = [sched EXCEPT !.run = RunAfter(t, pc)]
    /\ UNCHANGED <<stepperVars, flapVars, arg, res, orch>>

\* The rest of the round: the throttled emit, then `await setTimeoutNS(dt)`,
\* which either returns at once (its continuation is a microtask) or waits
\* for a timer or setImmediate.
MWait ==
    /\ sched.run # 0
    /\ tasks[sched.run].pc = "emit"
    /\ LET t == sched.run
           pc == IF tasks[t].short THEN "micro" ELSE "timer"
       IN /\ tasks' = [tasks EXCEPT ![t].pc = pc]
          /\ sched' = [run |-> RunAfter(t, pc),
                       mq |-> IF pc = "micro" THEN Append(sched.mq, t)
                              ELSE sched.mq]
    /\ UNCHANGED <<stepperVars, flapVars, arg, res, motors, orch>>

\* The timer or setImmediate that task t waits for in setTimeoutNS fires.
MTimer(t) ==
    /\ sched.run = 0
    /\ sched.mq = <<>>
    /\ tasks[t].pc = "timer"
    /\ tasks' = [tasks EXCEPT ![t].pc = "test"]
    /\ sched' = [sched EXCEPT !.run = RunAfter(t, "test")]
    /\ UNCHANGED <<stepperVars, flapVars, arg, res, motors, orch>>

\* The pending setImmediate(tick) of motor m's MockStepper runs.
MTick(m) ==
    /\ sched.run = 0
    /\ sched.mq = <<>>
    /\ motors[m].tick
    /\ motors' = [motors EXCEPT
                     ![m].tick = FALSE,
                     ![m].mockStep =
                         MockTick(@, motors[m].state, totalSteps)]
    /\ UNCHANGED <<stepperVars, flapVars, arg, res, tasks, sched, orch>>

MotorsNext ==
    \/ \E m \in MotorIds, steps \in TaskStepsSet, short \in BOOLEAN :
          MStep(m, steps, short)
    \/ MResume
    \/ MTest
    \/ MAdvance
    \/ MWrite
    \/ MWait
    \/ \E t \in TaskIds : MTimer(t)
    \/ \E m \in MotorIds : MTick(m)

MotorsSpec == MotorsInit /\ [][MotorsNext]_vars

\* ===================================================== bus-time cycle
\* setupBusTime on rows of a time mapper and a route mapper, each SplitFlap
\* on a Stepper of its own (mapper m on motor m).  orch holds
\*   pc      where onTimeout is: "timer" (before `await lastFlapUpdate`),
\*           "fetch" (awaiting getStopPredictions), "blank" (awaiting the
\*           setFlap('_') calls of the catch block), "dead" (it threw)
\*   cycle   the number of the present run of onTimeout
\*   failed  the present run's fetch was caught failing
\*   index   _flapIndex of each mapper
\*   calls   the setFlap calls made, each with its mapper, label, endIndex,
\*           cycle, group ("catch" or "update") and state
TimeLabels == <<"1", "0", "_">>

RouteLabels == <<"61C", "_">>

OrchTotalFlaps == 4

\* The mappers: those of row r are 2r-1 (time) and 2r (route).
Rows == 1..(MaxMotors \div 2)

Mappers == 1..(2 * (MaxMotors \div 2))

FlapsOf(m) == IF m % 2 = 1 THEN TimeLabels ELSE RouteLabels

CurrentFlap(m) == FlapsOf(m)[orch.index[m] + 1]

\* What getStopPredictions resolves with, after the route filter and
\* Math.min(prdctdn, 15).toString(): no prediction, one for the first row,
\* and one whose countdown is no number.
PrdInputs ==
    {<<>>, <<[rt |-> "61C", tm |-> "1"]>>, <<[rt |-> "61C", tm |-> "NaN"]>>}

\* Variant of CaughtPredictions that hands on a prediction.
CaughtPredictionsStale == <<[rt |-> "61C", tm |-> "1"]>>

\* What updateBusTimes returns after its catch block: `return []`.
CaughtPredictions == <<>>

\* updateFlaps: the setFlap calls of row r, time mapper first.
RowCalls(prds, r) ==
    IF r <= Len(prds)
    THEN <<[m |-> 2 * r - 1, flap |-> prds[r].tm],
           [m |-> 2 * r, flap |-> prds[r].rt]>>
    ELSE <<[m |-> 2 * r - 1, flap |-> "_"], [m |-> 2 * r, flap |-> "_"]>>

RECURSIVE UpdateCalls(_, _)
UpdateCalls(prds, r) ==
    IF r > MaxMotors \div 2 THEN <<>>
    ELSE RowCalls(prds, r) \o UpdateCalls(prds, r + 1)

\* The catch block: setFlap('_') on every mapper.
BlankCalls == [m \in Mappers |-> [m |-> m, flap |-> "_"]]

\* setFlap(flap) on mapper m with the tasks, microtask queue and calls of
\* S: it throws for an unknown flap, otherwise calls step() on its stepper
\* and awaits it.
SetFlapOn(S, m, flap, group) ==
    LET k == Len(S.calls) + 1
        call == [m |-> m, flap |-> flap, endIndex |-> NotANumber,
                 cycle |-> S.cycle, group |-> group, task |-> 0,
                 st |-> "rejected"]
    IN IF ~HasProperty(flap, FlapsOf(m))
       THEN [S EXCEPT !.calls = Append(@, call)]
       ELSE LET endIndex == FlapIndexOf(flap, FlapsOf(m))
                end == FlapEnd(endIndex, totalSteps)
                start == motors[m].currentStep * OrchTotalFlaps
                steps == ForwardSteps(end, start, totalSteps * OrchTotalFlaps)
                new == StepOn(S.tasks, S.mq, m, steps, OrchTotalFlaps,
                              FALSE, k)
            IN [S EXCEPT !.tasks = new.tasks, !.mq = new.mq,
                         !.calls = Append(@,
                             [call EXCEPT !.endIndex = endIndex,
                                          !.task = Len(S.tasks) + 1,
                                          !.st = "stepping"])]

\* The setFlap calls of list L, made one after the other in one run.
RECURSIVE SetFlaps(_, _, _)
SetFlaps(S, L, group) ==
    IF L = <<>> THEN S
    ELSE SetFlaps(SetFlapOn(S, Head(L).m, Head(L).flap, group), Tail(L),
                  group)

\* The calls of the present cycle's group.
GroupCalls(group) ==
    {k \in 1..Len(orch.calls) :
        orch.calls[k].cycle = orch.cycle /\ orch.calls[k].group = group}

\* Variant of AllResolved that does not wait for the calls.
AllResolvedUnawaited(K) == TRUE

\* Promise.all over a group of calls.
AllResolved(K) == \A k \in K : orch.calls[k].st = "resolved"

SomeRejected(K) == \E k \in K : orch.calls[k].st = "rejected"

\* The state after the calls L have been made in cycle c.
Calling(L, group, c, pc, failed) ==
    LET S == SetFlaps([tasks |-> tasks, mq |-> sched.mq,
                       calls |-> orch.calls, cycle |-> c], L, group)
    IN /\ tasks' = S.tasks
       /\ sched' = [sched EXCEPT !.mq = S.mq]
       /\ orch' = [orch EXCEPT !.calls = S.calls, !.cycle = c, !.pc = pc,
                                !.failed = failed]

OrchInit ==
    /\ totalSteps \in MinTotalSteps..MaxTotalSteps
    /\ useMock = TRUE
    /\ currentStep = 0
    /\ latestCommand = 0
    /\ cmds = <<>>
    /\ mq = <<>>
    /\ immq = <<>>
    /\ state = <<0, 0, 0, 0>>
    /\ mockStep = 0
    /\ now = 0
    /\ lastEvt = 0 - 1
    /\ lastEvtTime = 0 - 1
    /\ overlapped = FALSE
    /\ fails = 0
    /\ totalFlaps = 0
    /\ flaps = <<>>
    /\ period = 0
    /\ flapIndex = 0
    /\ calls = <<>>
    /\ NoFunction
    /\ motors = [m \in MotorIds |->
                    [currentStep |-> 0, state |-> <<0, 0, 0, 0>>,
                     latestCommand |-> 0, mockStep |-> 0, tick |-> FALSE]]
    /\ tasks = <<>>
    /\ sched = [run |-> 0, mq |-> <<>>]
    /\ orch = [pc |-> "timer", cycle |-> 0, failed |-> FALSE,
               index |-> [m \in Mappers |-> 0], calls |-> <<>>]

\* onTimeout runs: `await lastFlapUpdate` (it throws if a call of the last
\* updateFlaps was rejected), then either the display sleeps and is
\* blanked by updateFlaps([]), or the predictions are fetched.
OnTimeout(sleep) ==
    /\ sched.run = 0
    /\ orch.pc = "timer"
    /\ orch.cycle < MaxCycles
    /\ IF SomeRejected(GroupCalls("update"))
       THEN /\ orch' = [orch EXCEPT !.pc = "dead"]
            /\ UNCHANGED <<tasks, sched>>
       ELSE /\ AllResolved(GroupCalls("update"))
            /\ IF sleep
               THEN Calling(UpdateCalls(<<>>, 1), "update", orch.cycle + 1,
                            "timer", FALSE)
               ELSE /\ orch' = [orch EXCEPT !.pc = "fetch",
                                            !.cycle = @ + 1,
                                            !.failed = FALSE]
                    /\ UNCHANGED <<tasks, sched>>
    /\ UNCHANGED <<stepperVars, flapVars, arg, res, motors>>

\* getStopPredictions resolves with prds: updateFlaps(prds) and the next
\* timer.
FetchResolves(prds) ==
    /\ sched.run = 0
    /\ orch.pc = "fetch"
    /\ Calling(UpdateCalls(prds, 1), "update", orch.cycle, "timer", FALSE)
    /\ UNCHANGED <<stepperVars, flapVars, arg, res, motors>>

\* getStopPredictions rejects: the catch block of updateBusTimes calls
\* setFlap('_') on every mapper and awaits them all.
FetchRejects ==
    /\ sched.run = 0
    /\ orch.pc = "fetch"
    /\ Calling(BlankCalls, "catch", orch.cycle, "blank", TRUE)
    /\ UNCHANGED <<stepperVars, flapVars, arg, res, motors>>

\* The Promise.all of the catch block settles: updateBusTimes returns []
\* and onTimeout goes on with updateFlaps, or the rejection leaves
\* onTimeout.
BlankSettles ==
    /\ sched.run = 0
    /\ orch.pc = "blank"
    /\ IF SomeRejected(GroupCalls("catch"))
       THEN /\ orch' = [orch EXCEPT !.pc = "dead"]
            /\ UNCHANGED <<tasks, sched>>
       ELSE /\ AllResolved(GroupCalls("catch"))
            /\ Calling(UpdateCalls(CaughtPredictions, 1), "update",
                       orch.cycle, "timer", TRUE)
    /\ UNCHANGED <<stepperVars, flapVars, arg, res, motors>>

\* The microtask at the head of the queue resumes a setFlap call after
\* `await stepper.step(steps, duration)`: this._flapIndex = endIndex.
SetFlapResumes ==
    /\ sched.run = 0
    /\ sched.mq # <<>>
    /\ Head(sched.mq) < 0
    /\ LET k == 0 - Head(sched.mq)
           m == orch.calls[k].m
       IN orch' = [orch EXCEPT
                     !.calls[k].st = "resolved",
                     !.index[m] = IndexAfterStep(@, orch.calls[k].endIndex,
                                                 "resolved")]
    /\ sched' = [sched EXCEPT !.mq = Tail(@)]
    /\ UNCHANGED <<stepperVars, flapVars, arg, res, motors, tasks>>

OrchNext ==
    \/ \E sleep \in BOOLEAN : OnTimeout(sleep)
    \/ \E prds \in PrdInputs : FetchResolves(prds)
    \/ FetchRejects
    \/ BlankSettles
    \/ SetFlapResumes
    \/ MResume
    \/ MTest
    \/ MAdvance
    \/ MWrite
    \/ MWait
    \/ \E t \in TaskIds : MTimer(t)
    \/ \E m \in MotorIds : MTick(m)

OrchSpec == OrchInit /\ [][OrchNext]_vars

\* ============================================== pacing of one command
\* The interval dt between two transitions, in nanoseconds: below the
\* threshold of setTimeoutNS, waited for with setImmediate only, and waited
\* for with a timer and then setImmediate.
PaceDtSet == {5000, 40000, 1020000}

\* Nanoseconds of process.hrtime() that pass from one run of the event
\* loop's setImmediate callbacks to the next.
GapSet == {5000, 10000}

\* Nanoseconds the synchronous part of a transition takes.
WorkSet == {0, 5000}

\* Nanoseconds a timer fires after the time it was set for.
LateSet == {0, 5000}

PaceInputs ==
    {[fn |-> "pace", total |-> n, dt |-> d] :
        n \in 1..MaxSteps, d \in PaceDtSet}

PaceInit ==
    /\ totalSteps = MinTotalSteps
    /\ useMock = FALSE
    /\ currentStep = 0
    /\ latestCommand = 0
    /\ cmds = <<>>
    /\ mq = <<>>
    /\ immq = <<>>
    /\ state = <<0, 0, 0, 0>>
    /\ mockStep = 0
    /\ now = 0
    /\ lastEvt = 0 - 1
    /\ lastEvtTime = 0 - 1
    /\ overlapped = FALSE
    /\ fails = 0
    /\ totalFlaps = 0
    /\ flaps = <<>>
    /\ period = 0
    /\ flapIndex = 0
    /\ calls = <<>>
    /\ arg \in PaceInputs
    /\ res = [fn |-> "none"]
    /\ NoMotors
    /\ NoCycle

\* setTimeoutNS from the start of its for loop, with ns to wait and the
\* clock at c: `let t = process.hrtime()`, then the test `ns > 1e4`; if it
\* holds the body subtracts the time since t (none yet) and the loop
\* awaits setImmediate, otherwise setTimeoutNS returns.
EnterImmediateLoop(r, ns, c) ==
    [r EXCEPT !.clock = c, !.ns = ns, !.t = c,
              !.pc = IF ns > NS_IMMEDIATE_MIN THEN "imm" ELSE "loop"]

\* The command begins: `numSteps = 0`.
PaceStart ==
    /\ arg.fn = "pace"
    /\ res.fn = "none"
    /\ res' = [fn |-> "pace", pc |-> "loop", clock |-> 0, ns |-> 0, t |-> 0,
               numSteps |-> 0, last |-> 0 - 1, early |-> FALSE]
    /\ UNCHANGED <<stepperVars, flapVars, arg, motors, tasks, sched, orch>>

\* One round of queueCommand's loop: a transition at the present clock
\* (early records that less than dt has passed since the one before), its
\* synchronous work of w nanoseconds, then `await setTimeoutNS(dt)` up to
\* its first wait.
PaceTransition(w) ==
    /\ res.fn = "pace"
    /\ res.pc = "loop"
    /\ res.numSteps < arg.total
    /\ LET r == [res EXCEPT
                    !.numSteps = @ + 1,
                    !.last = res.clock,
                    !.early = @ \/ (res.last >= 0
                                     /\ res.clock - res.last < arg.dt)]
       IN res' = IF arg.dt > NS_PER_MS
                 THEN [r EXCEPT !.clock = @ + w, !.ns = arg.dt,
                                !.pc = "timer"]
                 ELSE EnterImmediateLoop(r, arg.dt, res.clock + w)
    /\ UNCHANGED <<stepperVars, flapVars, arg, motors, tasks, sched, orch>>

\* The timer of setTimeoutNS fires, late by `late`: `ns %= NS_PER_MS` and
\* the for loop begins.
PaceTimer(late) ==
    /\ res.fn = "pace"
    /\ res.pc = "timer"
    /\ res' = EnterImmediateLoop(res, res.ns % NS_PER_MS,
                   res.clock + (res.ns \div NS_PER_MS) * NS_PER_MS + late)
    /\ UNCHANGED <<stepperVars, flapVars, arg, motors, tasks, sched, orch>>

\* The setImmediate callback of setTimeoutNS's loop runs, gap nanoseconds
\* after the loop awaited it: the test `ns > 1e4` on the ns of the round
\* before, then either `ns -= hrtime(t)` and another await, or the return.
PaceImmediate(gap) ==
    /\ res.fn = "pace"
    /\ res.pc = "imm"
    /\ LET c == res.clock + gap
       IN res' = IF res.ns > NS_IMMEDIATE_MIN
                 THEN [res EXCEPT !.clock = c, !.ns = @ - (c - res.t)]
                 ELSE [res EXCEPT !.clock = c, !.pc = "loop"]
    /\ UNCHANGED <<stepperVars, flapVars, arg, motors, tasks, sched, orch>>

\* The loop test `numSteps < total` fails: the command resolves.
PaceDone ==
    /\ res.fn = "pace"
    /\ res.pc = "loop"
    /\ res.numSteps = arg.total
    /\ res' = [res EXCEPT !.pc = "done"]
    /\ UNCHANGED <<stepperVars, flapVars, arg, motors, tasks, sched, orch>>

PaceNext ==
    \/ PaceStart
    \/ \E w \in WorkSet : PaceTransition(w)
    \/ \E late \in LateSet : PaceTimer(late)
    \/ \E gap \in GapSet : PaceImmediate(gap)
    \/ PaceDone

PaceSpec == PaceInit /\ [][PaceNext]_vars

\* ============================================ a MockStepper on its own
\* A MockStepper whose four MockGPIO pins are written by anyone, in any
\* order and with any level.  res holds its totalSteps, _currentStep (p),
\* state and whether a setImmediate(tick) is pending.
MockTotals == 1..(MaxTotalSteps + 2)

\* The stepper, the mapper, the motors and the cycle are not in use.
NoStepper ==
    /\ totalSteps = MinTotalSteps
    /\ useMock = FALSE
    /\ currentStep = 0
    /\ latestCommand = 0
    /\ cmds = <<>>
    /\ mq = <<>>
    /\ immq = <<>>
    /\ state = <<0, 0, 0, 0>>
    /\ mockStep = 0
    /\ now = 0
    /\ lastEvt = 0 - 1
    /\ lastEvtTime = 0 - 1
    /\ overlapped = FALSE
    /\ fails = 0

NoSplitFlap ==
    /\ totalFlaps = 0
    /\ flaps = <<>>
    /\ period = 0
    /\ flapIndex = 0
    /\ calls = <<>>

MockInit ==
    /\ NoStepper
    /\ NoSplitFlap
    /\ NoMotors
    /\ NoCycle
    /\ arg \in {[fn |-> "mock", total |-> t] : t \in MockTotals}
    /\ res = [fn |-> "mock", p |-> 0, state |-> <<0, 0, 0, 0>>,
              tick |-> FALSE]

\* writeFn(pin, val): state[pin] = val ? 1 : 0, and the tick is (re-)armed.
MockWrite(pin, val) ==
    /\ res' = [res EXCEPT !.state[pin + 1] = IF val THEN 1 ELSE 0,
                          !.tick = TRUE]
    /\ UNCHANGED <<stepperVars, flapVars, arg, motors, tasks, sched, orch>>

\* The pending setImmediate(tick) runs.
MockTickFires ==
    /\ res.tick
    /\ res' = [res EXCEPT !.tick = FALSE,
                          !.p = MockTick(@, res.state, arg.total)]
    /\ UNCHANGED <<stepperVars, flapVars, arg, motors, tasks, sched, orch>>

MockNext ==
    \/ \E pin \in 0..(NUM_PINS - 1), val \in BOOLEAN : MockWrite(pin, val)
    \/ MockTickFires

MockSpec == MockInit /\ [][MockNext]_vars

\* ============================================ the /status subscriptions
\* res.conns[c] is one /status response; res.listeners[i] is the list of
\* 'step' listeners of motor i - 1, each named by the connection whose
\* closure it is.  res.log is the history of 'step' emissions, and from /
\* upto are the lengths of that history when the connection attached and
\* when its cleanup first ran (-1: not yet).  res.moves counts the steps
\* the motors have taken, notified or not.

MaxConns == 2

MaxMoves == 3

ConnIds == 1..MaxConns

StatusInit ==
    /\ NoStepper
    /\ NoSplitFlap
    /\ NoMotors
    /\ NoCycle
    /\ arg \in {[fn |-> "status", total |-> t] :
                    t \in MinTotalSteps..MaxTotalSteps}
    /\ res = [fn |-> "status",
              pos |-> [i \in MotorIds |-> 0],
              listeners |-> [i \in MotorIds |-> <<>>],
              log |-> <<>>,
              moves |-> 0,
              conns |-> <<>>]

\* onStep(step) of motor i - 1 for a connection: res.write(`${i} ${step}\0`).
OnStepWrite(conn, i, step) ==
    [conn EXCEPT !.written = Append(@, <<i - 1, step>>)]

\* removeListener('step', listeners[i]) on every motor.
CleanupKeepsListeners(L, c) == L

Cleanup(L, c) ==
    [i \in MotorIds |-> SelectSeq(L[i], LAMBDA x : x # c)]

\* app.get('/status'): the handler attaches one listener per motor and
\* writes each motor's current position at once.
StatusRequest ==
    /\ Len(res.conns) < MaxConns
    /\ LET c == Len(res.conns) + 1
           first == [i \in MotorIds |-> <<i - 1, res.pos[i]>>]
       IN res' = [res EXCEPT
                    !.listeners = [i \in MotorIds |-> Append(@[i], c)],
                    !.conns = Append(@, [ended |-> FALSE,
                                         closed |-> FALSE,
                                         errored |-> FALSE,
                                         written |-> first,
                                         from |-> Len(res.log),
                                         upto |-> 0 - 1])]
    /\ UNCHANGED <<stepperVars, flapVars, arg, motors, tasks, sched, orch>>

\* Motor i - 1 takes a step; when the step is notified, emit('step') calls
\* the motor's listeners in the order they were added.
StatusStep(i, d, emits) ==
    /\ res.moves < MaxMoves
    /\ LET p == stepMod(res.pos[i], d, arg.total)
       IN res' = [res EXCEPT
                    !.pos[i] = p,
                    !.moves = @ + 1,
                    !.log = IF emits THEN Append(@, <<i - 1, p>>) ELSE @,
                    !.conns = [c \in DOMAIN res.conns |->
                        IF emits /\ \E k \in DOMAIN res.listeners[i] :
                                        res.listeners[i][k] = c
                        THEN OnStepWrite(res.conns[c], i, p)
                        ELSE res.conns[c]]]
    /\ UNCHANGED <<stepperVars, flapVars, arg, motors, tasks, sched, orch>>

\* cleanup(): res.end(), then the listeners are removed.
StatusCleanup(c, evt) ==
    res' = [res EXCEPT
              !.listeners = Cleanup(@, c),
              !.conns[c] = [@ EXCEPT
                  !.ended = TRUE,
                  !.closed = @ \/ evt = "close",
                  !.errored = @ \/ evt = "error",
                  !.upto = IF @ < 0 THEN Len(res.log) ELSE @]]

\* The response emits 'close'.
StatusClose(c) ==
    /\ c \in DOMAIN res.conns
    /\ ~res.conns[c].closed
    /\ StatusCleanup(c, "close")
    /\ UNCHANGED <<stepperVars, flapVars, arg, motors, tasks, sched, orch>>

\* The response emits 'error'.
StatusError(c) ==
    /\ c \in DOMAIN res.conns
    /\ ~res.conns[c].errored
    /\ StatusCleanup(c, "error")
    /\ UNCHANGED <<stepperVars, flapVars, arg, motors, tasks, sched, orch>>

StatusNext ==
    \/ StatusRequest
    \/ \E i \in MotorIds, d \in {0 - 1, 1}, emits \in BOOLEAN :
           StatusStep(i, d, emits)
    \/ \E c \in ConnIds : StatusClose(c)
    \/ \E c \in ConnIds : StatusError(c)

StatusSpec == StatusInit /\ [][StatusNext]_vars

\* ============================================ the page's status stream
\* res holds the StatusStream: req (0: null), restartTimer (0: null) and
\* consumed; res.xhrs are the XMLHttpRequest objects made by start(), in
\* order; res.timers are the window timers pending.  A response body is a
\* sequence of characters, NUL being the packet terminator.  For each
\* request, data is the history of the packets dispatched as 'data' events
\* and onabort lists the requests whose startReq listens for its 'abort'
\* event.  res.fired is the request whose LOADING readystatechange was
\* handled by the latest step (0: none).

MaxReqs == 3

MaxBody == 3

NUL == 0

Chars == {NUL, 1}

ReqIds == 1..MaxReqs

NewXhr ==
    [st |-> "unsent", sent |-> FALSE, aborted |-> FALSE, body |-> <<>>,
     data |-> <<>>, onabort |-> <<>>]

StreamInit ==
    /\ NoStepper
    /\ NoSplitFlap
    /\ NoMotors
    /\ NoCycle
    /\ arg = [fn |-> "stream"]
    /\ res = [fn |-> "stream", req |-> 0, restartTimer |-> 0,
              consumed |-> 0, xhrs |-> <<>>, timers |-> {}, ntimers |-> 0,
              fired |-> 0]

\* A request the browser is still feeding: opened and sent, not yet done.
Feeding(x) == x.st \in {"opened", "loading"}

\* body.indexOf('\0', start), on 0-based positions; -1 if there is none.
IndexOf(body, start) ==
    LET hits == {i \in (start + 1)..Len(body) : body[i] = NUL}
    IN IF hits = {} THEN 0 - 1
       ELSE (CHOOSE i \in hits : \A j \in hits : i <= j) - 1

\* The while loop of reqStateChange: the new consumed and the packets
\* dispatched, in order.
RECURSIVE ConsumeLoop(_, _, _)
ConsumeLoop(body, start, out) ==
    IF start < Len(body)
    THEN LET end == IndexOf(body, start)
         IN IF end < 0
            THEN [consumed |-> start, data |-> out]
            ELSE ConsumeLoop(body, end + 1,
                             Append(out, SubSeq(body, start + 1, end)))
    ELSE [consumed |-> start, data |-> out]

\* reqStateChange for a readystatechange event of request r.
ReqStateChange(S, r) ==
    IF S.xhrs[r].st # "loading"
    THEN S
    ELSE LET c == ConsumeLoop(S.xhrs[r].body, S.consumed, <<>>)
         IN [S EXCEPT !.consumed = c.consumed,
                      !.xhrs[r].data = @ \o c.data]

\* startReq of request n: open, listen, send, arm the restart timer.
StartReq(S, n) ==
    [S EXCEPT !.xhrs[n].st = "opened",
              !.xhrs[n].sent = TRUE,
              !.restartTimer = S.ntimers + 1,
              !.timers = @ \cup {S.ntimers + 1},
              !.ntimers = @ + 1]

RECURSIVE FireAbort(_, _)
FireAbort(S, ls) ==
    IF ls = <<>> THEN S ELSE FireAbort(StartReq(S, Head(ls)), Tail(ls))

\* XMLHttpRequest.abort(): a request in flight becomes done, its
\* readystatechange and 'abort' listeners run, and it ends unsent with an
\* empty response; a request that is done ends the same way without any
\* event; an unsent one is left alone.
XhrAbort(S, r) ==
    IF Feeding(S.xhrs[r])
    THEN LET S1 == [S EXCEPT !.xhrs[r].st = "done"]
             S2 == ReqStateChange(S1, r)
             S3 == FireAbort(S2, S.xhrs[r].onabort)
         IN [S3 EXCEPT !.xhrs[r].st = "unsent", !.xhrs[r].body = <<>>,
                       !.xhrs[r].aborted = TRUE]
    ELSE [S EXCEPT !.xhrs[r].st = "unsent", !.xhrs[r].body = <<>>]

\* StatusStream.prototype.abort
AbortKeepsConsumed(S) ==
    IF S.req = 0
    THEN S
    ELSE XhrAbort([S EXCEPT !.timers = @ \ {S.restartTimer},
                            !.restartTimer = 0,
                            !.req = 0],
                  S.req)

AbortOp(S) ==
    IF S.req = 0
    THEN S
    ELSE XhrAbort([S EXCEPT !.timers = @ \ {S.restartTimer},
                            !.restartTimer = 0,
                            !.req = 0,
                            !.consumed = 0],
                  S.req)

\* StatusStream.prototype.start
StartOpNoWait(S) ==
    LET n == Len(S.xhrs) + 1
        S1 == [S EXCEPT !.xhrs = Append(@, NewXhr)]
    IN [StartReq(S1, n) EXCEPT !.req = n]

StartOp(S) ==
    LET n == Len(S.xhrs) + 1
        S1 == [S EXCEPT !.xhrs = Append(@, NewXhr)]
        S2 == IF S.req # 0
              THEN AbortOp([S1 EXCEPT !.xhrs[S.req].onabort = Append(@, n)])
              ELSE StartReq(S1, n)
    IN [S2 EXCEPT !.req = n]

\* A call of start(): the page's load handler, or any later caller.
StreamStart ==
    /\ Len(res.xhrs) < MaxReqs
    /\ res' = StartOp([res EXCEPT !.fired = 0])
    /\ UNCHANGED <<stepperVars, flapVars, arg, motors, tasks, sched, orch>>

\* The restart timer fires and calls start().
StreamTimerFires ==
    /\ Len(res.xhrs) < MaxReqs
    /\ \E t \in res.timers :
           res' = StartOp([res EXCEPT !.timers = @ \ {t}, !.fired = 0])
    /\ UNCHANGED <<stepperVars, flapVars, arg, motors, tasks, sched, orch>>

\* A call of abort().
StreamAbort ==
    /\ res.req # 0
    /\ res' = AbortOp([res EXCEPT !.fired = 0])
    /\ UNCHANGED <<stepperVars, flapVars, arg, motors, tasks, sched, orch>>

\* A character of the response arrives.  The browser fires a LOADING
\* readystatechange for it, or holds the event back because the last one
\* was too recent.
StreamChunk(r, ch, fires) ==
    /\ r \in DOMAIN res.xhrs
    /\ Feeding(res.xhrs[r])
    /\ Len(res.xhrs[r].body) < MaxBody
    /\ LET S1 == [res EXCEPT !.xhrs[r].body = Append(@, ch),
                             !.fired = IF fires THEN r ELSE 0]
       IN res' = IF fires
                 THEN ReqStateChange([S1 EXCEPT !.xhrs[r].st = "loading"], r)
                 ELSE S1
    /\ UNCHANGED <<stepperVars, flapVars, arg, motors, tasks, sched, orch>>

\* The response ends on its own (the server closed it, or the network
\* failed): readystatechange with DONE.
StreamDone(r) ==
    /\ r \in DOMAIN res.xhrs
    /\ Feeding(res.xhrs[r])
    /\ res' = ReqStateChange([res EXCEPT !.xhrs[r].st = "done",
                                         !.fired = 0], r)
    /\ UNCHANGED <<stepperVars, flapVars, arg, motors, tasks, sched, orch>>

StreamNext ==
    \/ StreamStart
    \/ StreamTimerFires
    \/ StreamAbort
    \/ \E r \in ReqIds, ch \in Chars, fires \in BOOLEAN :
           StreamChunk(r, ch, fires)
    \/ \E r \in ReqIds : StreamDone(r)

StreamSpec == StreamInit /\ [][StreamNext]_vars

\* The browser runs a timer that is due.
StreamLiveSpec == StreamSpec /\ WF_vars(StreamTimerFires)

\* ================================================================ claims
\* The set of commands that make a successful transition in this step.
Transitioned(c) ==
    /\ cmds'[c].numSteps = cmds[c].numSteps + 1
    /\ ~cmds'[c].failed

\* Command c emits a 'step' event in this step.
Emitted(c) == cmds'[c].emits = cmds[c].emits + 1

\* Command c's promise resolves in this step.
ResolvesNow(c) == cmds[c].st # "resolved" /\ cmds'[c].st = "resolved"

\* C1: a command writes no pin and updates no position until every command
\* submitted before it on the same Stepper has settled.
C1_MutualExclusion ==
    \A c1 \in Ids, c2 \in Ids :
        (c1 < c2 /\ (cmds[c2].numSteps > 0 \/ cmds[c2].writes > 0))
            => Settled(c1)

\* C2: when commands are executed and completed one after another,
\* currentStep after a command equals (currentStep before it + steps) mod
\* totalSteps, wrapped into [0, totalSteps).
C2_PositionAfterCommand ==
    \A c \in Ids :
        ( /\ \A d \in Ids : d <= c => cmds[d].st = "resolved"
          /\ ~overlapped
          /\ \A d \in Ids : d > c => cmds[d].st \in {"awaiting", "queued"} )
        => currentStep = (cmds[c].startPos + cmds[c].steps) % totalSteps

\* C3: in every reachable state 0 <= currentStep < totalSteps.
C3_PositionInRange == currentStep \in 0..(totalSteps - 1)

\* All commands have settled and the mock's deferred tick has run.
Quiescent ==
    /\ cmds # <<>>
    /\ \A c \in Ids : Settled(c)
    /\ mq = <<>>
    /\ immq = <<>>

\* C4: oracle property: once every command has settled and the mock's tick
\* has run, MockStepper.currentStep equals Stepper.currentStep.
C4_Oracle == (useMock /\ Quiescent) => mockStep = currentStep

\* C5: a resolved command has performed exactly abs(steps) transitions,
\* each of them one step in direction sign(steps) around the wheel, and a
\* command of zero steps has written no pin.
C5_ExactTransitions ==
    \A c \in Ids :
        cmds[c].st = "resolved" =>
            /\ cmds[c].numSteps = Abs(cmds[c].steps)
            /\ cmds[c].steps > 0 => cmds[c].fwd = cmds[c].steps
            /\ cmds[c].steps < 0 => cmds[c].bwd = 0 - cmds[c].steps
            /\ cmds[c].steps = 0 => cmds[c].writes = 0

\* C6: a step(0, d) command resolves without having emitted a 'step' event.
C6_ZeroStepsSilent ==
    \A c \in Ids :
        (cmds[c].st = "resolved" /\ cmds[c].steps = 0) => cmds[c].emits = 0

\* C7: a command with at least one transition emits, in the step in which
\* its promise resolves, one 'step' event carrying the terminal position,
\* whatever the time since the last event; the last event delivered then
\* equals currentStep.
C7_FinalEvent ==
    [][\A c \in Ids :
          (ResolvesNow(c) /\ Abs(cmds[c].steps) >= 1)
              => /\ Emitted(c)
                 /\ lastEvt' = currentStep'
                 /\ lastEvtTime' = now']_vars

\* C7 witness: a command with a transition has resolved and the only event
\* it emitted is the final one (the throttle interval never elapsed).
C7_Witness ==
    \E c \in Ids :
        /\ cmds[c].st = "resolved"
        /\ cmds[c].numSteps >= 1
        /\ cmds[c].emits = 1
        /\ lastEvt = currentStep

C9_Fifo ==
    \A c1 \in Ids, c2 \in Ids :
        c1 < c2 =>
            /\ Settled(c2) => Settled(c1)
            /\ (cmds[c2].numSteps > 0 /\ cmds[c1].steps # 0)
                   => cmds[c1].numSteps > 0

\* C10: errors are local: a command rejects only if one of its own pin
\* writes failed.
C10_ErrorsLocal ==
    \A c \in Ids : cmds[c].st = "rejected" => cmds[c].failed

\* A pin write of command c throws in this step.
FailsNow(c) == cmds'[c].failed /\ ~cmds[c].failed

\* C11: when a pin write throws during a transition of a command, the
\* command's promise rejects in that step, the pins after the failing one
\* keep their levels and no 'step' event is emitted; from then on the
\* command writes no pin, makes no transition and emits nothing.
C11_AbortOnWriteError ==
    [][\A c \in Ids :
          /\ FailsNow(c) =>
                LET failAt == cmds'[c].writes - cmds[c].writes
                IN /\ cmds'[c].st = "rejected"
                   /\ failAt \in 0..(NUM_PINS - 1)
                   /\ \A i \in (failAt + 1)..NUM_PINS : state'[i] = state[i]
                   /\ ~Emitted(c)
                   /\ lastEvt' = lastEvt
          /\ cmds[c].failed =>
                /\ cmds[c].st = "rejected"
                /\ cmds'[c] = cmds[c]]_vars

\* C11 witness: a command was aborted by a pin write that threw after some
\* pins of the row had been written, with transitions still to make.
C11_Witness ==
    \E c \in Ids :
        /\ cmds[c].failed
        /\ cmds[c].st = "rejected"
        /\ cmds[c].writes % NUM_PINS # 0
        /\ cmds[c].numSteps < Abs(cmds[c].steps)

\* C12: in the step in which a pin write of a command throws, currentStep
\* becomes the position before the transition moved by one step in the
\* command's direction around the wheel, and it is not rolled back.
C12_AdvancedNotRolledBack ==
    [][\A c \in Ids :
          FailsNow(c) =>
              currentStep' = (currentStep + Sign(cmds[c].steps) + totalSteps)
                                 % totalSteps]_vars

\* C21: provided no pin write fails, every submitted command eventually
\* resolves, having made all its abs(steps) transitions.
C21_EventuallyResolves ==
    \A c \in 1..MaxCmds :
        (Len(cmds) >= c)
            ~> (fails > 0 \/ (/\ c \in Ids
                              /\ cmds[c].st = "resolved"
                              /\ cmds[c].numSteps = Abs(cmds[c].steps)))

\* C21 witness: without any failed write, a command that had to wait for an
\* unsettled earlier command has resolved after all its transitions.
C21_Witness ==
    \E c \in Ids :
        /\ fails = 0
        /\ cmds[c].waitOn # 0
        /\ cmds[c].steps # 0
        /\ cmds[c].st = "resolved"
        /\ cmds[c].numSteps = Abs(cmds[c].steps)

\* C26: a completed transition has written the four pins, which then hold
\* the row of the phase table indexed by the new position mod 4; a
\* transition cut short by a failing write has written the pins before the
\* failing one, in the order 0, 1, 2, 3, with the levels of that row.
C26_PhaseRow ==
    [][\A c \in Ids :
          /\ Transitioned(c) =>
                /\ cmds'[c].writes = cmds[c].writes + NUM_PINS
                /\ state' = STEP_PINS[(currentStep' % NUM_PINS) + 1]
          /\ FailsNow(c) =>
                \A i \in 1..(cmds'[c].writes - cmds[c].writes) :
                    state'[i] = STEP_PINS[(currentStep' % NUM_PINS) + 1][i]]_vars

\* C26 witness: after a completed transition to a position of another
\* phase than 0, the pins hold that position's row.
C26_Witness ==
    /\ \E c \in Ids : cmds[c].numSteps >= 1 /\ ~cmds[c].failed
    /\ fails = 0
    /\ currentStep % NUM_PINS # 0
    /\ state = STEP_PINS[(currentStep % NUM_PINS) + 1]

\* C28: the simulated motor's check runs once for every transition of the
\* driver: when a transition begins, the check queued by the transition
\* before it has run.
C28_CheckPerTransition ==
    [][\A c \in Ids :
          (useMock /\ Transitioned(c)) => \A i \in 1..Len(immq) : immq[i] # 0]_vars

\* ------------------------------------------------------ SplitFlap claims
\* flap is one of the labels the display was built with.
IsLabel(flap) == \E i \in 1..Len(flaps) : flaps[i] = flap

\* The index of the label flap in the display's label list (from 0).
LabelIndex(flap) == (CHOOSE i \in 1..Len(flaps) : flaps[i] = flap) - 1

\* n / d rounded to the nearest integer (n >= 0, d > 0).
Round(n, d) == (2 * n + d) \div (2 * d)

\* Call k threw the unknown-flap error.
UnknownFlapError(k) ==
    /\ calls[k].st = "rejected"
    /\ calls[k].cmd = 0
    /\ ~IsLabel(calls[k].flap)
    /\ calls[k].flap \notin ObjectPrototypeKeys

\* Nothing is pending or running: every command and call has settled.
FlapQuiescent ==
    /\ mq = <<>>
    /\ \A c \in Ids : Settled(c)
    /\ \A k \in CallIds : calls[k].st # "stepping"

\* C13: a (non-calibrating) setFlap call is rejected at the call, without a
\* step command, exactly when its label is not one of the display's labels.
C13_UnknownRejected ==
    \A k \in CallIds :
        ~calls[k].noStep =>
            ((calls[k].st = "rejected" /\ calls[k].cmd = 0)
                 <=> ~IsLabel(calls[k].flap))

\* C14: the step in which a setFlap call throws the unknown-flap error
\* changes neither _flapIndex nor anything of the stepper: no position
\* change, no command, no queued continuation, no pin write.
C14_UnknownLeavesState ==
    [][(Len(calls') = Len(calls) + 1
            /\ ~IsLabel(calls'[Len(calls')].flap)
            /\ calls'[Len(calls')].flap \notin ObjectPrototypeKeys)
        => /\ calls'[Len(calls')].st = "rejected"
           /\ calls'[Len(calls')].cmd = 0
           /\ flapIndex' = flapIndex
           /\ stepperVars' = stepperVars]_vars

\* C14 witness: a call failed with the unknown-flap error while the display
\* was away from its initial flap, and the next call, with a label of the
\* display, resolved.
C14_Witness ==
    \E k \in CallIds :
        /\ UnknownFlapError(k)
        /\ k < Len(calls)
        /\ IsLabel(calls[k + 1].flap)
        /\ calls[k + 1].st = "resolved"

\* C15: the step count a non-calibrating setFlap with a label of the display
\* passes to stepper.step is non-negative and equals the forward distance,
\* modulo one revolution, from the stepper's currentStep at the call to the
\* label's target step index / totalFlaps * totalSteps.
C15_ForwardOnly ==
    \A k \in CallIds :
        (calls[k].cmd # 0 /\ IsLabel(calls[k].flap)) =>
            LET c == cmds[calls[k].cmd]
            IN /\ c.den = totalFlaps
               /\ c.steps >= 0
               /\ c.steps = (LabelIndex(calls[k].flap) * totalSteps
                               - calls[k].start * totalFlaps)
                            % (totalSteps * totalFlaps)

\* C15 witness: a call made when the stepper was not at the target of the
\* cached index, for which going backward would have been shorter.
C15_Witness ==
    \E k \in CallIds :
        /\ calls[k].cmd # 0
        /\ IsLabel(calls[k].flap)
        /\ calls[k].indexBefore # NotANumber
        /\ calls[k].start * totalFlaps # calls[k].indexBefore * totalSteps
        /\ 2 * cmds[calls[k].cmd].steps > totalSteps * totalFlaps

\* C16: when every call so far was a non-calibrating setFlap with a label of
\* the display, made after the calls before it had settled, and all have
\* resolved, then _flapIndex is the index of the last label and currentStep
\* is that label's target step.
C16_SequentialTarget ==
    (calls # <<>>
       /\ \A k \in CallIds : /\ ~calls[k].noStep
                             /\ IsLabel(calls[k].flap)
                             /\ ~calls[k].overlap
                             /\ calls[k].st = "resolved")
    => /\ flapIndex = LabelIndex(calls[Len(calls)].flap)
       /\ currentStep * totalFlaps
              = LabelIndex(calls[Len(calls)].flap) * totalSteps

\* C17: in a quiescent state after non-calibrating setFlap calls with labels
\* of the display, some of them made while an earlier one was in motion, all
\* resolved: _flapIndex is the index of the last-submitted label and
\* currentStep is the target step of the label at _flapIndex.
C17_QuiescentConsistent ==
    (FlapQuiescent
       /\ (\E k \in CallIds : calls[k].overlap)
       /\ \A k \in CallIds : /\ ~calls[k].noStep
                             /\ IsLabel(calls[k].flap)
                             /\ calls[k].st = "resolved")
    => /\ flapIndex = LabelIndex(calls[Len(calls)].flap)
       /\ currentStep * totalFlaps = flapIndex * totalSteps

\* C18: a calibrating setFlap with a label of the display makes no step
\* command and completes without error, and as long as it is the last call
\* _flapIndex is the label's index.
C18_Calibration ==
    \A k \in CallIds :
        (calls[k].noStep /\ IsLabel(calls[k].flap)) =>
            /\ calls[k].st = "resolved"
            /\ calls[k].cmd = 0
            /\ k = Len(calls) => flapIndex = LabelIndex(calls[k].flap)

\* C19: the step count setFlap passes to the stepper is a whole number: the
\* forward distance from currentStep at the call to the integer
\* round(index / totalFlaps * totalSteps).
C19_WholeSteps ==
    \A k \in CallIds :
        (calls[k].cmd # 0 /\ IsLabel(calls[k].flap)) =>
            LET c == cmds[calls[k].cmd]
                target == Round(LabelIndex(calls[k].flap) * totalSteps,
                                totalFlaps)
            IN c.steps = ((target - calls[k].start) % totalSteps) * c.den

\* C20: _flapIndex changes only in the step in which a setFlap call resumes
\* after its step command resolved, and then to that call's index; a call
\* whose step command rejected rejects without changing _flapIndex, and a
\* call in motion has not set its index.
C20_IndexAfterMotion ==
    [][/\ flapIndex' # flapIndex =>
            \E k \in CallIds :
                /\ calls[k].st = "stepping"
                /\ calls'[k].st = "resolved"
                /\ cmds[calls[k].cmd].st = "resolved"
                /\ flapIndex' = calls[k].endIndex
       /\ \A k \in CallIds :
            (calls[k].st = "stepping" /\ calls'[k].st # "stepping") =>
                /\ calls'[k].st = cmds[calls[k].cmd].st
                /\ calls'[k].st = "rejected" => flapIndex' = flapIndex
       /\ \A k \in CallIds :
            (calls[k].cmd # 0 /\ cmds[calls[k].cmd].st = "rejected") =>
                calls[k].st \in {"stepping", "rejected"}]_vars

\* C20 witness: one call resolved and set the index to a flap other than the
\* initial one; a later call's step command rejected, the call rejected and
\* the index is still that of the first.
C20_Witness ==
    \E j \in CallIds, k \in CallIds :
        /\ j < k
        /\ calls[j].st = "resolved"
        /\ calls[j].endIndex > 0
        /\ calls[k].st = "rejected"
        /\ calls[k].cmd # 0
        /\ cmds[calls[k].cmd].failed
        /\ calls[k].endIndex # calls[j].endIndex
        /\ flapIndex = calls[j].endIndex

\* ------------------------------------------- constructor and tick claims
\* C23: constructing a Stepper fails exactly when the pin set does not have
\* length 4 or, for a MockStepper, when the caller's totalSteps differs
\* from the mock's; otherwise there is a driver with currentStep = 0.
C23_ConstructionFailsExactly ==
    res.fn = "Stepper" =>
        /\ res.threw <=>
              \/ arg.pins.length # NUM_PINS
              \/ /\ arg.pins.kind = "mock"
                 /\ arg.totalSteps # arg.pins.totalSteps
        /\ ~res.threw => res.currentStep = 0

\* C24: constructing a SplitFlap fails whenever period <= 0; otherwise the
\* mapper shows index 0 and its table maps each label to an index of that
\* label in the list, and stays that table whatever is assigned to it.
C24_SplitFlapConstruction ==
    res.fn = "SplitFlap" =>
        /\ arg.period <= 0 => res.threw
        /\ arg.period > 0 =>
              /\ ~res.threw
              /\ res.flapIndex = 0
              /\ DOMAIN res.flapIndices
                    = {arg.flaps[i] : i \in 1..Len(arg.flaps)}
              /\ \A l \in DOMAIN res.flapIndices :
                    arg.flaps[res.flapIndices[l] + 1] = l

\* C24 witness: a mapper over a full label list was built with a positive
\* period and an entry of its table has been assigned to since.
C24_Witness ==
    /\ res.fn = "SplitFlap"
    /\ arg.period > 0
    /\ Len(arg.flaps) = MaxTotalFlaps
    /\ ~res.threw
    /\ res.assigned

\* C27: a tick on position p and pin levels v moves to (p+1) mod totalSteps
\* if v is that position's phase row; otherwise to (p-1+totalSteps) mod
\* totalSteps if v is that position's phase row; otherwise nowhere.
C27_TickInference ==
    res.fn = "tick" =>
        LET fwd == (arg.p + 1) % arg.total
            bwd == (arg.p - 1 + arg.total) % arg.total
        IN res.p = IF arg.v = STEP_PINS[(fwd % NUM_PINS) + 1] THEN fwd
                   ELSE IF arg.v = STEP_PINS[(bwd % NUM_PINS) + 1] THEN bwd
                   ELSE arg.p

\* C27 witness: both neighbours of the position have the phase row on the
\* pins, two positions apart, and the tick has moved forward.
C27_Witness ==
    /\ res.fn = "tick"
    /\ arg.total > NUM_PINS
    /\ arg.v = STEP_PINS[(((arg.p + 1) % arg.total) % NUM_PINS) + 1]
    /\ arg.v = STEP_PINS[(((arg.p - 1 + arg.total) % arg.total) % NUM_PINS) + 1]
    /\ (arg.p + 1) % arg.total # (arg.p - 1 + arg.total) % arg.total
    /\ res.p = (arg.p + 1) % arg.total

\* ---------------------------------------------------------- pacing claim
\* C25: no transition of a command is made earlier than one interval dt
\* after the transition before it.
C25_NoEarlyStep == res.fn = "pace" => ~res.early

\* ------------------------------------------------ several-motor claims
\* The tasks that run a statement in this step.
Acting(t) == t \in TaskIds /\ tasks'[t] # tasks[t]

\* C22: the pins and the position of a motor change only in steps of a
\* command of that motor, and a command never awaits a command of another
\* motor.
C22_MotorsIndependent ==
    /\ [][\A m \in MotorIds :
             (\/ motors'[m].state # motors[m].state
              \/ motors'[m].currentStep # motors[m].currentStep)
                => \E t \in TaskIds : Acting(t) /\ tasks[t].motor = m]_vars
    /\ [](\A t \in TaskIds :
             tasks[t].waitOn # 0
                => tasks[tasks[t].waitOn].motor = tasks[t].motor)

\* C22 witness: commands of two motors are both between their first and
\* their last transition.
C22_Witness ==
    \E t, u \in TaskIds :
        /\ tasks[t].motor # tasks[u].motor
        /\ \A x \in {t, u} :
              /\ tasks[x].numSteps >= 1
              /\ tasks[x].numSteps < Abs(tasks[x].steps)
              /\ tasks[x].pc # "done"
        /\ motors[tasks[t].motor].currentStep # 0
        /\ motors[tasks[u].motor].currentStep # 0

\* C29: while a command is between its position update and the last of
\* its four writes, every step is a write of that command: no other
\* command runs or is called, no other motor changes and no tick runs; and
\* a running command gives up the thread only at its timed wait or at its
\* end.
C29_TransitionAtomic ==
    /\ [][\A t \in TaskIds :
             MidTransition(tasks[t].pc) =>
                /\ Acting(t)
                /\ Len(tasks') = Len(tasks)
                /\ \A u \in TaskIds \ {t} : tasks'[u] = tasks[u]
                /\ \A m \in MotorIds \ {tasks[t].motor} :
                      motors'[m] = motors[m]
                /\ \A m \in MotorIds :
                      /\ motors'[m].mockStep = motors[m].mockStep
                      /\ motors[m].tick => motors'[m].tick]_vars
    /\ [][(sched.run # 0 /\ sched'.run # sched.run) =>
             tasks'[sched.run].pc \in {"micro", "timer", "done"}]_vars

\* C29 witness: a command is among the four writes of a transition while
\* a command of the same motor and one of another motor are unfinished,
\* and a tick of another motor is pending.
C29_Witness ==
    \E t, u, x \in TaskIds :
        /\ tasks[t].pc = "w2"
        /\ u # t /\ tasks[u].motor = tasks[t].motor /\ tasks[u].pc # "done"
        /\ tasks[x].motor # tasks[t].motor /\ tasks[x].pc = "timer"
        /\ motors[tasks[x].motor].tick

\* ------------------------------------------------------ bus-time claim
\* Every setFlap call of the present cycle has resolved, updateFlaps
\* included.
CycleComplete ==
    /\ orch.pc = "timer"
    /\ orch.cycle >= 1
    /\ \A k \in 1..Len(orch.calls) :
          orch.calls[k].cycle = orch.cycle => orch.calls[k].st = "resolved"

\* C30: when the fetch of a cycle was caught failing and all of that
\* cycle's setFlap calls have completed, every mapper shows '_'.
C30_BlankOnFailure ==
    (orch.failed /\ CycleComplete) => \A m \in Mappers : CurrentFlap(m) = "_"

\* C30 witness: a cycle with a failed fetch is complete, after a cycle
\* that had put a prediction on a mapper.
C30_Witness ==
    /\ orch.failed
    /\ CycleComplete
    /\ \E k \in 1..Len(orch.calls) :
          /\ orch.calls[k].cycle < orch.cycle
          /\ orch.calls[k].flap # "_"
          /\ orch.calls[k].st = "resolved"

\* ------------------------------------------------------ MockStepper claim
\* C32: whatever is written to the pins, the mock's position stays in
\* 0..totalSteps-1, and one tick leaves it or moves it to one of its two
\* neighbours on the wheel.
C32_MockInRange ==
    /\ [](res.p >= 0 /\ res.p < arg.total)
    /\ [][res'.p \in {res.p, (res.p + 1) % arg.total,
                      (res.p - 1 + arg.total) % arg.total}]_vars

\* C32 witness: the mock has wrapped backward from 0 to totalSteps - 1 on
\* a wheel of more than four steps.
C32_Witness ==
    /\ arg.total > NUM_PINS
    /\ res.p = arg.total - 1
    /\ ~res.tick

\* ------------------------------------------------------ no-op setFlap claim
\* Call k was a non-calibrating setFlap of a label of the display, made
\* when no earlier call was in motion and the stepper stood at the label's
\* target step.
AtTargetCall(k) ==
    /\ ~calls[k].noStep
    /\ IsLabel(calls[k].flap)
    /\ ~calls[k].overlap
    /\ calls[k].start * totalFlaps = LabelIndex(calls[k].flap) * totalSteps

\* C33: such a call requests zero steps, its command makes no transition,
\* and the call resolves, with _flapIndex the label's index.
C33_NoOpAtTarget ==
    /\ [](\A k \in CallIds :
             AtTargetCall(k) =>
                /\ calls[k].cmd # 0
                /\ cmds[calls[k].cmd].steps = 0
                /\ cmds[calls[k].cmd].numSteps = 0
                /\ calls[k].st \in {"stepping", "resolved"})
    /\ [][\A k \in CallIds :
             (AtTargetCall(k) /\ calls[k].st = "stepping"
                 /\ calls'[k].st # "stepping")
                => flapIndex' = LabelIndex(calls[k].flap)]_vars

\* ----------------------------------------------------- updater claims
\* C34: the updater never has two setFlap calls outstanding on the same
\* mapper.
C34_NoOverlap ==
    \A j, k \in 1..Len(orch.calls) :
        (j # k /\ orch.calls[j].m = orch.calls[k].m)
            => ~(orch.calls[j].st = "stepping" /\ orch.calls[k].st = "stepping")

\* C34 witness: a mapper is in motion for a call of the second cycle after
\* a call of the first cycle had moved it.
C34_Witness ==
    \E j, k \in 1..Len(orch.calls) :
        /\ orch.calls[j].m = orch.calls[k].m
        /\ orch.calls[j].cycle < orch.calls[k].cycle
        /\ orch.calls[j].st = "resolved"
        /\ tasks[orch.calls[j].task].numSteps >= 1
        /\ orch.calls[k].st = "stepping"
        /\ tasks[orch.calls[k].task].numSteps >= 1

\* C35: onTimeout never ends without having set the timer for its next
\* run.
C35_AlwaysRearms == orch.pc # "dead"

\* C31: every /status connection has been written, after the positions it
\* got on attaching, exactly the 'step' notifications emitted between its
\* attaching and its first cleanup, as pairs (motor, position) in emission
\* order; once cleaned up nothing more is written to it; a cleanup changes
\* no motor's position and no other connection.
StatusExpected(c) ==
    LET conn == res.conns[c]
        to == IF conn.upto < 0 THEN Len(res.log) ELSE conn.upto
    IN [i \in MotorIds |-> conn.written[i]]
       \o SubSeq(res.log, conn.from + 1, to)

C31_Subscribers ==
    /\ [](\A c \in DOMAIN res.conns :
            /\ Len(res.conns[c].written) >= MaxMotors
            /\ res.conns[c].written = StatusExpected(c)
            /\ \A i \in MotorIds : res.conns[c].written[i][1] = i - 1)
    /\ [][\A c \in DOMAIN res.conns :
            /\ res.conns[c].ended
                   => res'.conns[c].written = res.conns[c].written
            /\ (res'.conns[c].ended /\ res'.conns[c] # res.conns[c]
                /\ res'.pos = res.pos /\ res'.log = res.log)
                   => \A o \in DOMAIN res.conns \ {c} :
                         /\ res'.conns[o] = res.conns[o]
                         /\ \A i \in MotorIds :
                              (\E k \in DOMAIN res.listeners[i] :
                                    res.listeners[i][k] = o)
                              <=> (\E k \in DOMAIN res'.listeners[i] :
                                    res'.listeners[i][k] = o)]_vars

\* A connection cleaned up on both events, with a notification emitted
\* afterwards that another, still open connection received.
C31_Witness ==
    \E c, o \in DOMAIN res.conns :
        /\ res.conns[c].closed /\ res.conns[c].errored
        /\ Len(res.conns[c].written) > MaxMotors
        /\ res.conns[c].upto < Len(res.log)
        /\ ~res.conns[o].ended
        /\ Len(res.conns[o].written) > Len(res.conns[c].written)

\* C36: the packets a request has dispatched are always the first complete
\* NUL-terminated packets of its body, each once and in stream order; after
\* each LOADING event they are all of them, and an unterminated tail is not
\* among them; consumed never decreases while the request stays the active
\* one, and it goes back to 0 only when abort() drops the request.
NulsOf(body) == {i \in 1..Len(body) : body[i] = NUL}

Packets(body) ==
    LET nuls == InOrder(NulsOf(body))
    IN [k \in 1..Len(nuls) |->
           SubSeq(body, (IF k = 1 THEN 0 ELSE nuls[k - 1]) + 1, nuls[k] - 1)]

IsPrefix(s, t) == Len(s) <= Len(t) /\ s = SubSeq(t, 1, Len(s))

C36_Framing ==
    /\ [](\A r \in DOMAIN res.xhrs :
            /\ res.xhrs[r].st # "unsent"
                   => IsPrefix(res.xhrs[r].data, Packets(res.xhrs[r].body))
            /\ res.fired = r
                   => res.xhrs[r].data = Packets(res.xhrs[r].body)
            /\ (res.req = r /\ Feeding(res.xhrs[r]))
                   => res.consumed =
                        IF res.xhrs[r].data = <<>> THEN 0
                        ELSE InOrder(NulsOf(res.xhrs[r].body))
                                 [Len(res.xhrs[r].data)])
    /\ [][\A r \in DOMAIN res.xhrs :
            /\ (res'.req = res.req) => res'.consumed >= res.consumed
            /\ res'.consumed < res.consumed
                   => res'.consumed = 0 /\ res.req # 0
                      /\ res'.req # res.req]_vars

\* A second request, started after the first had dispatched packets and
\* was aborted, has dispatched a packet of its own and holds an
\* unterminated tail after a LOADING event.
C36_Witness ==
    \E r \in DOMAIN res.xhrs :
        /\ r > 1
        /\ res.xhrs[r - 1].data # <<>>
        /\ res.xhrs[r - 1].aborted
        /\ res.req = r
        /\ res.fired = r
        /\ res.xhrs[r].data = <<<<1>>>>
        /\ res.xhrs[r].body = <<1, NUL, 1>>
        /\ res.consumed = 2

\* C37: at most one request is being fed by the browser at any time, and it
\* is the stream's current one; a request is sent only in a step after
\* which no other request is still being fed, any that was fed before having
\* got its abort; at most one window timer is pending, the one the stream
\* holds.
FeedingReqs == {r \in DOMAIN res.xhrs : Feeding(res.xhrs[r])}

C37_SingleActive ==
    /\ [](/\ Cardinality(FeedingReqs) <= 1
          /\ FeedingReqs \subseteq {res.req}
          /\ Cardinality(res.timers) <= 1
          /\ res.timers \subseteq {res.restartTimer})
    /\ [][\A n \in DOMAIN res'.xhrs :
            (res'.xhrs[n].sent
             /\ (n \in DOMAIN res.xhrs => ~res.xhrs[n].sent))
            => \A o \in DOMAIN res.xhrs \ {n} :
                  /\ ~Feeding(res'.xhrs[o])
                  /\ Feeding(res.xhrs[o]) => res'.xhrs[o].aborted]_vars

\* A replacement request is being fed, with its restart timer pending,
\* after the request before it was aborted while in flight.
C37_Witness ==
    \E n \in DOMAIN res.xhrs :
        /\ n > 1
        /\ res.xhrs[n - 1].aborted
        /\ res.xhrs[n - 1].onabort = <<n>>
        /\ Feeding(res.xhrs[n])
        /\ res.req = n
        /\ res.timers = {res.restartTimer}

\* C38: every request made by a call of start() is eventually opened and
\* sent.
C38_RestartLive ==
    \A n \in ReqIds :
        [](n \in DOMAIN res.xhrs
               => <>(n \in DOMAIN res.xhrs /\ res.xhrs[n].sent))

====
